---------------------------- MODULE Spec2Model ----------------------------
(***************************************************************************)
(* Taxonomy consistency of the typecho blog API: categories and tags live  *)
(* in one table (typecho_metas), content in typecho_contents, and the      *)
(* links between them in typecho_relationships.  Every request handler of  *)
(* category_edit.py, tags_edit.py and post_edit.py is one action.          *)
(*                                                                         *)
(* Strings that the code inspects character by character (name, slug) are  *)
(* sequences of one-character strings; an optional JSON field is <<>>      *)
(* (absent) or <<v>> (present with value v).                               *)
(***************************************************************************)
EXTENDS Integers, Sequences, FiniteSets, TLC

VARIABLES
    metas,      \* typecho_metas: mid -> row
    rels,       \* typecho_relationships: set of <<cid, mid>>
    contents,   \* typecho_contents: cid -> row
    nextMid,    \* AUTO_INCREMENT of typecho_metas
    nextCid,    \* AUTO_INCREMENT of typecho_contents
    last,       \* the last request served and its response
    pre,        \* the store as it was before the last request
    track,      \* the counts before the content creation that was the last request
    procs       \* the requests in progress, when requests run concurrently

vars == <<metas, rels, contents, nextMid, nextCid, last, pre, track, procs>>

(***************************************************************************)
(* Bounds of the model.                                                    *)
(***************************************************************************)
MaxMid == 2
MaxCid == 1
MaxOrder == 2
MaxLen == 2

(***************************************************************************)
(* Characters and the string functions of Python the handlers use.         *)
(***************************************************************************)
Space == {" "}
AsciiWord == {"a", "b", "A", "B", "1", "_", "H", "W", "h", "e", "l", "o", "w", "r", "d"}
Hyphen == {"-"}

Lower(c) ==
    CASE c = "A" -> "a" [] c = "B" -> "b" [] c = "H" -> "h" [] c = "W" -> "w" [] OTHER -> c

RECURSIVE LStrip(_)
LStrip(s) ==
    IF s # <<>> /\ Head(s) \in Space THEN LStrip(Tail(s)) ELSE s

RECURSIVE RStrip(_)
RStrip(s) ==
    IF s # <<>> /\ s[Len(s)] \in Space THEN RStrip(SubSeq(s, 1, Len(s) - 1)) ELSE s

Strip(s) == RStrip(LStrip(s))

Get(opt, default) == IF opt = <<>> THEN default ELSE opt[1]


(* a lower() that returns its argument *)
LowerStr_identity(s) == s

(* str.lower() on every character *)
LowerStr(s) == [i \in 1..Len(s) |-> Lower(s[i])]

NonAsciiWord == {"zh"}     \* one letter outside ASCII, which \w matches too
Word == AsciiWord \cup NonAsciiWord
Sep == Hyphen \cup Space

RECURSIVE DropSeps(_)
DropSeps(s) ==
    IF s # <<>> /\ Head(s) \in Sep THEN DropSeps(Tail(s)) ELSE s

(* re.sub(r'[-\s]+', '-', s): every maximal run of hyphens and whitespace *)
(* becomes one hyphen                                                     *)
RECURSIVE Collapse(_)
Collapse(s) ==
    IF s = <<>> THEN <<>>
    ELSE IF Head(s) \in Sep THEN <<"-">> \o Collapse(DropSeps(Tail(s)))
    ELSE <<Head(s)>> \o Collapse(Tail(s))

(* re.sub(r'[^\w\s-]', '', s) *)
KeepWordSpaceHyphen(s) == SelectSeq(s, LAMBDA c : c \in Word \cup Space \cup Hyphen)

slugify(name) == Collapse(KeepWordSpaceHyphen(LowerStr(Strip(name))))

(* a format check with \w in place of a-zA-Z0-9_ *)
SlugFormatOk_any_word(slug) ==
    /\ slug # <<>>
    /\ \A i \in 1..Len(slug) : slug[i] \in Word \cup Hyphen

(* re.match(r'^[a-zA-Z0-9_-]+$', slug) *)
SlugFormatOk(slug) ==
    /\ slug # <<>>
    /\ \A i \in 1..Len(slug) : slug[i] \in AsciiWord \cup Hyphen

(***************************************************************************)
(* The store.                                                              *)
(***************************************************************************)
Store == [metas |-> metas, rels |-> rels, contents |-> contents]

Put(f, k, v) == [i \in DOMAIN f \cup {k} |-> IF i = k THEN v ELSE f[i]]

Drop(f, ks) == [i \in DOMAIN f \ ks |-> f[i]]

Max(S) == CHOOSE x \in S : \A y \in S : y <= x

Mids(m, kind) == {i \in DOMAIN m : m[i].type = kind}

(***************************************************************************)
(* Helpers of category_edit.py.  The duplicate checks append               *)
(* " AND mid != %s" after "LIMIT 1" when ignore_mid is given: MySQL        *)
(* rejects that statement, the helper catches the error and answers False. *)
(* ignore_mid = 0 stands for None.                                         *)
(***************************************************************************)
MalformedQuery(ignore_mid) == ignore_mid # 0

(* an existence check that forgets "type = 'category'" *)
category_exists_any_type(mid, m) == mid \in DOMAIN m

category_exists(mid, m) == mid \in Mids(m, "category")

(* a name check that compares the slug column *)
cat_name_exists_by_slug(name, m, ignore_mid) ==
    IF MalformedQuery(ignore_mid) THEN FALSE
    ELSE \E i \in Mids(m, "category") : m[i].slug = name

(* a name check that forgets "AND name = %s" *)
cat_name_exists_any_name(name, m, ignore_mid) ==
    IF MalformedQuery(ignore_mid) THEN FALSE
    ELSE Mids(m, "category") # {}

cat_name_exists(name, m, ignore_mid) ==
    IF MalformedQuery(ignore_mid) THEN FALSE
    ELSE \E i \in Mids(m, "category") : m[i].name = name

(* a slug check that forgets "type = 'category'" *)
cat_slug_exists_any_type(slug, m, ignore_mid) ==
    IF MalformedQuery(ignore_mid) THEN FALSE
    ELSE \E i \in DOMAIN m : m[i].slug = slug

cat_slug_exists(slug, m, ignore_mid) ==
    IF MalformedQuery(ignore_mid) THEN FALSE
    ELSE \E i \in Mids(m, "category") : m[i].slug = slug

(* a get_max_order whose query forgets "AND parent = %s" *)
get_max_order_any_parent(parent_mid, m) ==
    LET bucket == Mids(m, "category")
    IN  IF bucket = {} THEN 0 ELSE Max({m[i].order : i \in bucket})

(* a get_max_order that counts the rows under the parent *)
get_max_order_by_count(parent_mid, m) ==
    Cardinality({i \in Mids(m, "category") : m[i].parent = parent_mid})

get_max_order(parent_mid, m) ==
    LET bucket == {i \in Mids(m, "category") : m[i].parent = parent_mid}
    IN  IF bucket = {} THEN 0 ELSE Max({m[i].order : i \in bucket})

(***************************************************************************)
(* Helpers of tags_edit.py: the same three checks over the rows of type    *)
(* 'tag', with the same malformed statement when ignore_mid is given.      *)
(***************************************************************************)
(* an existence check that forgets "type = 'tag'" *)
tag_exists_any_type(mid, m) == mid \in DOMAIN m

tag_exists(mid, m) == mid \in Mids(m, "tag")

tag_name_exists(name, m, ignore_mid) ==
    IF MalformedQuery(ignore_mid) THEN FALSE
    ELSE \E i \in Mids(m, "tag") : m[i].name = name

tag_slug_exists(slug, m, ignore_mid) ==
    IF MalformedQuery(ignore_mid) THEN FALSE
    ELSE \E i \in Mids(m, "tag") : m[i].slug = slug

(***************************************************************************)
(* The record of a request: which handler ran on which id, what it         *)
(* answered, and the store before it.                                      *)
(***************************************************************************)
NoTrack == [cid |-> 0, count |-> <<>>]

Counts(m) == [i \in DOMAIN m |-> m[i].count]

(* rows: the ids of the rows of a list response, in the order of the list  *)
ReplyRows(op, code, id, order, errors, cleaned, closed, failed, rows) ==
    /\ last' = [op |-> op, code |-> code, id |-> id,
                order |-> order, errors |-> errors, cleaned |-> cleaned,
                after_sweep |-> (last.op = "refresh_tags" /\ last.code = 200),
                closed |-> closed, failed |-> failed, rows |-> rows]
    /\ pre' = Store
    /\ track' = IF op = "create_post" /\ code = 201
                THEN [cid |-> id, count |-> Counts(metas)]
                ELSE IF op = "delete_post" /\ code = 200 /\ track.cid = id
                THEN track
                ELSE NoTrack
    /\ UNCHANGED procs

Reply(op, code, id, order, errors, cleaned, closed, failed) ==
    ReplyRows(op, code, id, order, errors, cleaned, closed, failed, <<>>)

(* a return inside try ... finally: connection.close() *)
Respond(op, code, id, order, errors, cleaned) ==
    Reply(op, code, id, order, errors, cleaned, TRUE, "none")

(* the same return of a request in which the statement `failed` raised and *)
(* the error was caught on the way                                         *)
RespondAfter(failed, op, code, id, order, errors, cleaned) ==
    Reply(op, code, id, order, errors, cleaned, TRUE, failed)

(* a return between get_db_connection() and the try block: nothing closes *)
(* the connection                                                         *)
RespondBeforeTry(failed, op, code, id) ==
    Reply(op, code, id, 0, {}, 0, FALSE, failed)

(* except Exception: connection.rollback(); return 500 *)
Aborted(failed, op, id) ==
    /\ Reply(op, 500, id, 0, {}, 0, TRUE, failed)
    /\ UNCHANGED <<metas, rels, contents>>

(* what a helper answers: its result, or the value of its except branch   *)
(* when its statement is the one that fails                                *)
Answer(failing, statement, result, on_error) ==
    IF failing = statement THEN on_error ELSE result

(***************************************************************************)
(* verify_user.py.  A header payload is what base64 and utf-8 decoding     *)
(* make of it: nothing (ok = FALSE), a string without ':' (colon = FALSE), *)
(* or "user:pass".  typecho_users holds one user with an API password and  *)
(* one without; md5 is a function that maps different strings to          *)
(* different digests.                                                      *)
(***************************************************************************)
md5(password) == <<"md5", password>>

typecho_users ==
    [name \in {"admin", "guest"} |->
        IF name = "admin" THEN [python_api_pwd |-> <<md5("pw")>>]
        ELSE [python_api_pwd |-> <<>>]]

(* a check that looks the user up and never compares the password *)
authenticate_user_by_name(username, password) ==
    username \in DOMAIN typecho_users

authenticate_user(username, password) ==
    IF username \notin DOMAIN typecho_users THEN FALSE
    ELSE LET stored_hashed_password == typecho_users[username].python_api_pwd
         IN  IF stored_hashed_password = <<>> THEN FALSE
             ELSE md5(password) = stored_hashed_password[1]

(* base64.b64decode(...).decode('utf-8'), None when either raises *)
b64decode(payload) == IF payload.ok THEN <<payload>> ELSE <<>>

(* return jsonify({'error': 'Unauthorized: ...'}), 401: the handler is not *)
(* called                                                                  *)
Unauthorized(op) ==
    /\ Respond(op, 401, 0, 0, {}, 0)
    /\ UNCHANGED <<metas, rels, contents, nextMid, nextCid>>

(* @require_api_auth on the handler f of the route op *)
require_api_auth(headers, op, f) ==
    LET auth_header == headers.authorization
        custom_auth_header == headers.x_api_auth
        auth_string ==
            IF auth_header # <<>> /\ auth_header[1].scheme = "Basic"
            THEN b64decode(auth_header[1].payload)
            ELSE IF custom_auth_header # <<>> THEN b64decode(custom_auth_header[1])
            ELSE <<>>
    IN  IF auth_string = <<>> \/ ~auth_string[1].colon
        THEN Unauthorized(op)
        ELSE IF ~authenticate_user(auth_string[1].user, auth_string[1].pass)
        THEN Unauthorized(op)
        ELSE f

(***************************************************************************)
(* errors = []; errors.append(...) in each validation block; the request   *)
(* is rejected after the last block if errors is not empty.                *)
(***************************************************************************)
(* a validation that stops at the first block that found something *)
Collected_first_only(e1, e2, e3) ==
    IF e1 # {} THEN e1 ELSE IF e2 # {} THEN e2 ELSE e3

Collected(e1, e2, e3) == e1 \cup e2 \cup e3

(***************************************************************************)
(* POST /api/categories                                                    *)
(***************************************************************************)
create_category_with(data, failing) ==
    LET name == Strip(Get(data.name, <<>>))
        slug0 == Strip(Get(data.slug, <<>>))
        description == Get(data.description, "")
        parent == Get(data.parent, 0)
        e1 == IF name = <<>> THEN {"name_required"}
              ELSE IF Answer(failing, "name_exists",
                             cat_name_exists(name, metas, 0), FALSE)
              THEN {"name_exists"}
              ELSE {}
        slug == IF slug0 = <<>> THEN slugify(name) ELSE slug0
        e2 == IF ~SlugFormatOk(slug) THEN {"slug_format"}
              ELSE IF Answer(failing, "slug_exists",
                             cat_slug_exists(slug, metas, 0), FALSE)
              THEN {"slug_exists"}
              ELSE {}
        e3 == IF parent # 0
              THEN IF parent < 0 THEN {"parent_invalid"}
                   ELSE IF ~Answer(failing, "parent_exists",
                                   category_exists(parent, metas), FALSE)
                   THEN {"parent_missing"}
                   ELSE {}
              ELSE {}
        errors == Collected(e1, e2, e3)
        new_order == Answer(failing, "get_max_order",
                            get_max_order(parent, metas), 0) + 1
        new_mid == nextMid
        row == [type |-> "category", name |-> name, slug |-> slug,
                description |-> description, order |-> new_order,
                parent |-> parent, count |-> 0]
        \* the statements of the request that run
        reached == {x \in {"name_exists"} : name # <<>>}
                   \cup {x \in {"slug_exists"} : SlugFormatOk(slug)}
                   \cup {x \in {"parent_exists"} : parent > 0}
                   \cup {x \in {"get_max_order", "insert", "commit"} : errors = {}}
        failed == IF failing # "none" /\ failing \in reached THEN failing ELSE "none"
    IN  IF errors # {}
        THEN /\ RespondAfter(failed, "create_category", 400, 0, 0, errors, 0)
             /\ UNCHANGED <<metas, rels, contents, nextMid, nextCid>>
        ELSE IF failed = "insert"
        THEN /\ Aborted(failed, "create_category", 0)
             /\ UNCHANGED <<nextMid, nextCid>>
        ELSE IF failed = "commit"
        THEN /\ nextMid <= MaxMid
             /\ Aborted(failed, "create_category", 0)
             /\ nextMid' = nextMid + 1      \* the AUTO_INCREMENT value is spent
             /\ UNCHANGED nextCid
        ELSE /\ nextMid <= MaxMid
             /\ new_order <= MaxOrder
             /\ metas' = Put(metas, new_mid, row)
             /\ nextMid' = nextMid + 1
             /\ RespondAfter(failed, "create_category", 201, new_mid, new_order, {}, 0)
             /\ UNCHANGED <<rels, contents, nextCid>>

create_category(data) == create_category_with(data, "none")

(***************************************************************************)
(* PUT /api/categories/<mid>                                               *)
(***************************************************************************)
update_category_with(mid, data, failing) ==
    LET name == Strip(Get(data.name, <<>>))
        slug == Strip(Get(data.slug, <<>>))
        description == Get(data.description, "")
        has_parent == data.parent # <<>>        \* parent is not None
        parent == Get(data.parent, 0)
        found == Answer(failing, "category_exists", category_exists(mid, metas), FALSE)
        e1 == IF name = <<>> THEN {"name_required"}
              ELSE IF cat_name_exists(name, metas, mid) THEN {"name_exists"}
              ELSE {}
        e2 == IF slug # <<>>
              THEN IF ~SlugFormatOk(slug) THEN {"slug_format"}
                   ELSE IF cat_slug_exists(slug, metas, mid) THEN {"slug_exists"}
                   ELSE {}
              ELSE {}
        e3 == IF has_parent
              THEN IF parent < 0 THEN {"parent_invalid"}
                   ELSE IF parent > 0
                           /\ ~Answer(failing, "parent_exists",
                                      category_exists(parent, metas), FALSE)
                   THEN {"parent_missing"}
                   ELSE {}
              ELSE {}
        errors == Collected(e1, e2, e3)
        current == metas[mid]
        moved == has_parent /\ parent # current.parent
        new_order == Answer(failing, "get_max_order",
                            get_max_order(parent, metas), 0) + 1
        \* name is never empty here, description is never None
        row == [current EXCEPT
                  !.name = name,
                  !.slug = IF slug # <<>> THEN slug ELSE @,
                  !.description = description,
                  !.parent = IF has_parent THEN parent ELSE @,
                  !.order = IF moved THEN new_order ELSE @]
        reached == {"category_exists"}
                   \cup {x \in {"parent_exists"} : found /\ has_parent /\ parent > 0}
                   \cup {x \in {"select_current", "update", "commit"} :
                            found /\ errors = {}}
                   \cup {x \in {"get_max_order"} :
                            found /\ errors = {} /\ category_exists(mid, metas) /\ moved}
        failed == IF failing # "none" /\ failing \in reached THEN failing ELSE "none"
    IN  IF ~found
        THEN /\ RespondBeforeTry(failed, "update_category", 404, mid)
             /\ UNCHANGED <<metas, rels, contents, nextMid, nextCid>>
        ELSE IF errors # {}
        THEN /\ RespondAfter(failed, "update_category", 400, mid, 0, errors, 0)
             /\ UNCHANGED <<metas, rels, contents, nextMid, nextCid>>
        ELSE IF failed \in {"select_current", "update", "commit"}
        THEN /\ Aborted(failed, "update_category", mid)
             /\ UNCHANGED <<nextMid, nextCid>>
        ELSE /\ moved => new_order <= MaxOrder
             /\ metas' = [metas EXCEPT ![mid] = row]
             /\ RespondAfter(failed, "update_category", 200, mid, 0, {}, 0)
             /\ UNCHANGED <<rels, contents, nextMid, nextCid>>

update_category(mid, data) == update_category_with(mid, data, "none")

(***************************************************************************)
(* DELETE /api/categories/<mid>                                            *)
(***************************************************************************)
(* an UPDATE of the parent without its WHERE clause *)
Reparent_every_category(m, from, to) ==
    [i \in DOMAIN m |->
        IF m[i].type = "category" THEN [m[i] EXCEPT !.parent = to] ELSE m[i]]

Reparent(m, from, to) ==
    [i \in DOMAIN m |->
        IF m[i].type = "category" /\ m[i].parent = from
        THEN [m[i] EXCEPT !.parent = to] ELSE m[i]]

delete_category_with(mid, failing) ==
    LET found == Answer(failing, "category_exists", category_exists(mid, metas), FALSE)
        reached == {"category_exists"}
                   \cup {x \in {"select_parent", "delete", "delete_rels",
                                 "update_children", "commit"} : found}
        failed == IF failing # "none" /\ failing \in reached THEN failing ELSE "none"
    IN  IF ~found
        THEN /\ RespondBeforeTry(failed, "delete_category", 404, mid)
             /\ UNCHANGED <<metas, rels, contents, nextMid, nextCid>>
        ELSE IF failed # "none"
        THEN /\ Aborted(failed, "delete_category", mid)
             /\ UNCHANGED <<nextMid, nextCid>>
        ELSE LET deleted_parent == metas[mid].parent
             IN  /\ metas' = Reparent(Drop(metas, {mid}), mid, deleted_parent)
                 /\ rels' = {l \in rels : l[2] # mid}
                 /\ Respond("delete_category", 200, mid, 0, {}, 0)
                 /\ UNCHANGED <<contents, nextMid, nextCid>>

delete_category(mid) == delete_category_with(mid, "none")

(***************************************************************************)
(* POST /api/tags                                                          *)
(***************************************************************************)
(* a row that is filed under the first node *)
tag_values_under_first(name, slug) ==
    [type |-> "tag", name |-> name, slug |-> slug,
     description |-> "", order |-> 0, parent |-> 1, count |-> 0]

(* values = (name, slug, 'tag', '', 0, 0, 0) *)
tag_values(name, slug) ==
    [type |-> "tag", name |-> name, slug |-> slug,
     description |-> "", order |-> 0, parent |-> 0, count |-> 0]

create_tag_with(data, failing) ==
    LET name == Strip(Get(data.name, <<>>))
        slug0 == Strip(Get(data.slug, <<>>))
        e1 == IF name = <<>> THEN {"name_required"}
              ELSE IF Answer(failing, "name_exists",
                             tag_name_exists(name, metas, 0), FALSE)
              THEN {"name_exists"}
              ELSE {}
        slug == IF slug0 = <<>> THEN slugify(name) ELSE slug0
        e2 == IF ~SlugFormatOk(slug) THEN {"slug_format"}
              ELSE IF Answer(failing, "slug_exists",
                             tag_slug_exists(slug, metas, 0), FALSE)
              THEN {"slug_exists"}
              ELSE {}
        errors == Collected(e1, e2, {})
        new_mid == nextMid
        row == tag_values(name, slug)
        reached == {x \in {"name_exists"} : name # <<>>}
                   \cup {x \in {"slug_exists"} : SlugFormatOk(slug)}
                   \cup {x \in {"insert", "commit"} : errors = {}}
        failed == IF failing # "none" /\ failing \in reached THEN failing ELSE "none"
    IN  IF errors # {}
        THEN /\ RespondAfter(failed, "create_tag", 400, 0, 0, errors, 0)
             /\ UNCHANGED <<metas, rels, contents, nextMid, nextCid>>
        ELSE IF failed = "insert"
        THEN /\ Aborted(failed, "create_tag", 0)
             /\ UNCHANGED <<nextMid, nextCid>>
        ELSE IF failed = "commit"
        THEN /\ nextMid <= MaxMid
             /\ Aborted(failed, "create_tag", 0)
             /\ nextMid' = nextMid + 1
             /\ UNCHANGED nextCid
        ELSE /\ nextMid <= MaxMid
             /\ metas' = Put(metas, new_mid, row)
             /\ nextMid' = nextMid + 1
             /\ RespondAfter(failed, "create_tag", 201, new_mid, 0, {}, 0)
             /\ UNCHANGED <<rels, contents, nextCid>>

create_tag(data) == create_tag_with(data, "none")

(***************************************************************************)
(* PUT /api/tags/<mid>                                                     *)
(***************************************************************************)
update_tag_with(mid, data, failing) ==
    LET name == Strip(Get(data.name, <<>>))
        slug == Strip(Get(data.slug, <<>>))
        found == Answer(failing, "tag_exists", tag_exists(mid, metas), FALSE)
        e1 == IF name = <<>> THEN {"name_required"}
              ELSE IF tag_name_exists(name, metas, mid) THEN {"name_exists"}
              ELSE {}
        e2 == IF slug # <<>>
              THEN IF ~SlugFormatOk(slug) THEN {"slug_format"}
                   ELSE IF tag_slug_exists(slug, metas, mid) THEN {"slug_exists"}
                   ELSE {}
              ELSE {}
        errors == Collected(e1, e2, {})
        row == [metas[mid] EXCEPT
                  !.name = name,
                  !.slug = IF slug # <<>> THEN slug ELSE @]
        reached == {"tag_exists"}
                   \cup {x \in {"update", "commit"} : found /\ errors = {}}
        failed == IF failing # "none" /\ failing \in reached THEN failing ELSE "none"
    IN  IF ~found
        THEN /\ RespondBeforeTry(failed, "update_tag", 404, mid)
             /\ UNCHANGED <<metas, rels, contents, nextMid, nextCid>>
        ELSE IF errors # {}
        THEN /\ RespondAfter(failed, "update_tag", 400, mid, 0, errors, 0)
             /\ UNCHANGED <<metas, rels, contents, nextMid, nextCid>>
        ELSE IF failed \in {"update", "commit"}
        THEN /\ Aborted(failed, "update_tag", mid)
             /\ UNCHANGED <<nextMid, nextCid>>
        ELSE /\ metas' = [metas EXCEPT ![mid] = row]
             /\ RespondAfter(failed, "update_tag", 200, mid, 0, {}, 0)
             /\ UNCHANGED <<rels, contents, nextMid, nextCid>>

update_tag(mid, data) == update_tag_with(mid, data, "none")

(***************************************************************************)
(* DELETE /api/tags/<mid> and DELETE /api/tags (batch).  mid = 0 is the    *)
(* batch route; mids is <<>> when the body has no 'mids', else <<S>>.      *)
(***************************************************************************)
(* at: the ids whose tag_exists call is the one that raises *)
delete_tag_failing_at(mid, mids, failing, at) ==
    LET found(i) == Answer(IF i \in at THEN failing ELSE "none", "tag_exists",
                           tag_exists(i, metas), FALSE)
        mids_to_delete ==
            IF mid # 0 THEN {mid}
            ELSE {i \in Get(mids, {}) : found(i)}
        checked == mid # 0 \/ (mids # <<>> /\ Get(mids, {}) # {})
        deleting == IF mid # 0 THEN found(mid)
                    ELSE mids # <<>> /\ mids_to_delete # {}
        asked == IF mid # 0 THEN {mid} ELSE Get(mids, {})
        reached == {x \in {"tag_exists"} : checked /\ asked \cap at # {}}
                   \cup {x \in {"delete", "delete_rels", "commit"} : deleting}
        failed == IF failing # "none" /\ failing \in reached THEN failing ELSE "none"
    IN  IF mid # 0 /\ ~found(mid)
        THEN /\ RespondAfter(failed, "delete_tag", 404, mid, 0, {}, 0)
             /\ UNCHANGED <<metas, rels, contents, nextMid, nextCid>>
        ELSE IF mid = 0 /\ mids = <<>>
        THEN /\ RespondAfter(failed, "delete_tag", 400, mid, 0, {"missing_mids"}, 0)
             /\ UNCHANGED <<metas, rels, contents, nextMid, nextCid>>
        ELSE IF mids_to_delete = {}
        THEN /\ RespondAfter(failed, "delete_tag", 404, mid, 0, {}, 0)
             /\ UNCHANGED <<metas, rels, contents, nextMid, nextCid>>
        ELSE IF failed \in {"delete", "delete_rels", "commit"}
        THEN /\ Aborted(failed, "delete_tag", mid)
             /\ UNCHANGED <<nextMid, nextCid>>
        ELSE /\ metas' = Drop(metas, {i \in mids_to_delete : metas[i].type = "tag"})
             /\ rels' = {l \in rels : l[2] \notin mids_to_delete}
             /\ RespondAfter(failed, "delete_tag", 200, mid, 0, {}, 0)
             /\ UNCHANGED <<contents, nextMid, nextCid>>

(* the failing statement fails every time it runs *)
delete_tag_with(mid, mids, failing) ==
    delete_tag_failing_at(mid, mids, failing, {mid} \cup Get(mids, {}))

delete_tag(mid, mids) == delete_tag_with(mid, mids, "none")

(***************************************************************************)
(* GET /api/categories/<mid> and GET /api/tags/<mid>: SELECT ... WHERE      *)
(* type = ... AND mid = %s; 404 when no row, else the row.                  *)
(***************************************************************************)
get_category(mid) ==
    LET category == {i \in Mids(metas, "category") : i = mid}
    IN  /\ Respond("get_category", IF category = {} THEN 404 ELSE 200, mid, 0, {}, 0)
        /\ UNCHANGED <<metas, rels, contents, nextMid, nextCid>>

get_tag(mid) ==
    LET tag == {i \in Mids(metas, "tag") : i = mid}
    IN  /\ Respond("get_tag", IF tag = {} THEN 404 ELSE 200, mid, 0, {}, 0)
        /\ UNCHANGED <<metas, rels, contents, nextMid, nextCid>>

(***************************************************************************)
(* GET /api/categories and GET /api/tags.  A result set is a sequence that *)
(* holds every selected row once; ORDER BY fixes the order of two rows     *)
(* only where their sort keys differ, so rows with equal keys come in any  *)
(* order.                                                                  *)
(***************************************************************************)
ResultSets(S) ==
    {q \in [1..Cardinality(S) -> S] : \A i, j \in DOMAIN q : i # j => q[i] # q[j]}

(* ORDER BY parent ASC, `order` ASC *)
OrderByParentOrder(q, m) ==
    \A i, j \in DOMAIN q :
        i < j => \/ m[q[i]].parent < m[q[j]].parent
                 \/ /\ m[q[i]].parent = m[q[j]].parent
                    /\ m[q[i]].order <= m[q[j]].order

(* ORDER BY mid DESC *)
OrderByMidDesc(q) == \A i, j \in DOMAIN q : i < j => q[i] > q[j]

Min(a, b) == IF a <= b THEN a ELSE b

DefaultPage == 1

DefaultPerPage == 50

MaxPerPage == 100

get_categories ==
    \E categories \in ResultSets(Mids(metas, "category")) :
        /\ OrderByParentOrder(categories, metas)
        /\ ReplyRows("get_categories", 200, 0, 0, {}, 0, TRUE, "none", categories)
        /\ UNCHANGED <<metas, rels, contents, nextMid, nextCid>>

(* LIMIT %s OFFSET %s with a negative number is an error of the statement *)
get_tags(page, per_page_arg) ==
    LET per_page == Min(per_page_arg, MaxPerPage)
        offset == (page - 1) * per_page
    IN  IF per_page < 0 \/ offset < 0
        THEN /\ Respond("get_tags", 500, 0, 0, {}, 0)
             /\ UNCHANGED <<metas, rels, contents, nextMid, nextCid>>
        ELSE \E all \in ResultSets(Mids(metas, "tag")) :
                /\ OrderByMidDesc(all)
                /\ LET tags == SubSeq(all, offset + 1, Min(offset + per_page, Len(all)))
                   IN  ReplyRows("get_tags", 200, 0, 0, {}, 0, TRUE, "none", tags)
                /\ UNCHANGED <<metas, rels, contents, nextMid, nextCid>>

(***************************************************************************)
(* POST /api/tags/refresh                                                  *)
(***************************************************************************)
(* a recount that counts the links to content of any status *)
PublishedLinks_any_status(mid, r, c) ==
    Cardinality({l \in r : /\ l[2] = mid
                           /\ l[1] \in DOMAIN c
                           /\ c[l[1]].type = "post"})

PublishedLinks(mid, r, c) ==
    Cardinality({l \in r : /\ l[2] = mid
                           /\ l[1] \in DOMAIN c
                           /\ c[l[1]].type = "post"
                           /\ c[l[1]].status = "publish"})

RefreshCount(m, r, c) ==
    [i \in DOMAIN m |->
        IF m[i].type = "tag"
        THEN [m[i] EXCEPT !.count = PublishedLinks(i, r, c)] ELSE m[i]]

Orphaned(m) == {i \in Mids(m, "tag") : m[i].count = 0}

DeleteOrphaned(m) == Drop(m, Orphaned(m))

(* a sweep that deletes the tags of count 0 before it recounts *)
Refreshed_delete_first(m, r, c) == RefreshCount(DeleteOrphaned(m), r, c)

Refreshed(m, r, c) == DeleteOrphaned(RefreshCount(m, r, c))

refresh_tags_with(failing) ==
    IF failing \in {"refresh_count", "delete_orphaned", "commit"}
    THEN /\ Aborted(failing, "refresh_tags", 0)
         /\ UNCHANGED <<nextMid, nextCid>>
    ELSE /\ metas' = Refreshed(metas, rels, contents)
         /\ Respond("refresh_tags", 200, 0, 0, {},
                    Cardinality(DOMAIN metas \ DOMAIN Refreshed(metas, rels, contents)))
         /\ UNCHANGED <<rels, contents, nextMid, nextCid>>

refresh_tags == refresh_tags_with("none")

(***************************************************************************)
(* POST /api/posts.  The ids of a list are taken as a set: the new cid is  *)
(* fresh, so a link is inserted once per id.                               *)
(***************************************************************************)
Incr(m, ids, kind) ==
    [i \in DOMAIN m |->
        IF i \in ids /\ m[i].type = kind
        THEN [m[i] EXCEPT !.count = @ + 1] ELSE m[i]]

create_post_with(data, failing) ==
    LET category_ids == Get(data.category, {1})
        tags_input == Get(data.tags, {})
        status == Get(data.status, "publish")
        post_id == nextCid
        cats == {i \in category_ids : category_exists(i, metas)}
        tags == {i \in tags_input : tag_exists(i, metas)}
        reached == {"insert", "commit"}
                   \cup {x \in {"select_meta"} : category_ids \cup tags_input # {}}
                   \cup {x \in {"insert_rel", "increment"} : cats \cup tags # {}}
        failed == IF failing # "none" /\ failing \in reached THEN failing ELSE "none"
    IN  IF failed = "insert"
        THEN /\ Aborted(failed, "create_post", 0)
             /\ UNCHANGED <<nextMid, nextCid>>
        ELSE IF failed # "none"
        THEN /\ nextCid <= MaxCid
             /\ Aborted(failed, "create_post", 0)
             /\ nextCid' = nextCid + 1      \* the AUTO_INCREMENT value is spent
             /\ UNCHANGED nextMid
        ELSE /\ nextCid <= MaxCid
             /\ contents' = Put(contents, post_id,
                                [type |-> "post", status |-> status, parent |-> 0])
             /\ nextCid' = nextCid + 1
             /\ rels' = rels \cup {<<post_id, i>> : i \in cats \cup tags}
             /\ metas' = Incr(Incr(metas, cats, "category"), tags, "tag")
             /\ Respond("create_post", 201, post_id, 0, {}, 0)
             /\ UNCHANGED nextMid

create_post(data) == create_post_with(data, "none")

(***************************************************************************)
(* DELETE /api/posts/<post_id>                                             *)
(***************************************************************************)
Decr(m, ids, kind) ==
    [i \in DOMAIN m |->
        IF i \in ids /\ m[i].type = kind
        THEN [m[i] EXCEPT !.count = @ - 1] ELSE m[i]]

(* a delete that decrements whatever the status of the post *)
Counted_any_status(post_status, post_type) == post_type = "post"

Counted(post_status, post_type) == post_status = "publish" /\ post_type = "post"

LinkedMids(r, cid) == {l[2] : l \in {x \in r : x[1] = cid}}

(* the statements of delete_post whose error is caught and logged, after  *)
(* which the request goes on                                              *)
Swallowed == {"delete_fields", "delete_draft_fields"}

delete_post_with(post_id, failing) ==
    LET found == post_id \in DOMAIN contents
                 /\ contents[post_id].type \in {"post", "post_draft"}
    IN  IF failing = "select_post"
        THEN /\ Aborted(failing, "delete_post", post_id)
             /\ UNCHANGED <<nextMid, nextCid>>
        ELSE IF ~found
        THEN /\ Respond("delete_post", 404, post_id, 0, {}, 0)
             /\ UNCHANGED <<metas, rels, contents, nextMid, nextCid>>
        ELSE LET post_status == contents[post_id].status
                 post_type == contents[post_id].type
                 counted == Counted(post_status, post_type)
                 \* 2. the content row
                 c2 == Drop(contents, {post_id})
                 \* 3. every link of the post is read and deleted in the first loop
                 related_categories == LinkedMids(rels, post_id)
                 r3 == {l \in rels : ~(l[1] = post_id /\ l[2] \in related_categories)}
                 m3 == IF counted THEN Decr(metas, related_categories, "category")
                       ELSE metas
                 \* 4. the second loop reads the links again, after the first deleted them
                 related_tags == LinkedMids(r3, post_id)
                 r4 == {l \in r3 : ~(l[1] = post_id /\ l[2] \in related_tags)}
                 m4 == IF counted THEN Decr(m3, related_tags, "tag") ELSE m3
                 \* 6. attachments of the post are detached
                 c6 == [i \in DOMAIN c2 |->
                          IF c2[i].parent = post_id /\ c2[i].type = "attachment"
                          THEN [c2[i] EXCEPT !.parent = 0, !.status = "publish"]
                          ELSE c2[i]]
                 \* 8. one draft of the post, if any, goes with its links
                 drafts == {i \in DOMAIN c6 :
                              c6[i].parent = post_id /\ c6[i].type = "post_draft"}
                 draft_cid == IF drafts = {} THEN 0 ELSE CHOOSE i \in drafts : TRUE
                 c8 == Drop(c6, {draft_cid})
                 r8 == {l \in r4 : l[1] # draft_cid}
                 reached == {"delete", "select_rels", "delete_comments", "unattach",
                             "delete_fields", "select_draft", "commit"}
                            \cup {x \in {"delete_rel"} : related_categories # {}}
                            \cup {x \in {"decrement"} :
                                     related_categories # {} /\ counted}
                            \cup {x \in {"delete_draft", "delete_draft_fields"} :
                                     drafts # {}}
                 failed == IF failing # "none" /\ failing \in reached THEN failing ELSE "none"
             IN  IF failed \notin {"none"} \cup Swallowed
                 THEN /\ Aborted(failed, "delete_post", post_id)
                      /\ UNCHANGED <<nextMid, nextCid>>
                 ELSE /\ contents' = c8
                      /\ rels' = r8
                      /\ metas' = m4
                      /\ RespondAfter(failed, "delete_post", 200, post_id, 0, {}, 0)
                      /\ UNCHANGED <<nextMid, nextCid>>

delete_post(post_id) == delete_post_with(post_id, "none")

(***************************************************************************)
(* Concurrent requests.  Each request runs on a connection of its own, one *)
(* SQL statement at a time; a read sees what is committed, a write stays   *)
(* in the transaction until its commit.  A step is one statement and the   *)
(* handler's code up to the next one.                                      *)
(***************************************************************************)
Procs == {1, 2}

NoData == [name |-> <<>>, slug |-> <<>>, description |-> <<>>, parent |-> <<>>]

Idle == [pc |-> "idle", op |-> "none", mid |-> 0, data |-> NoData,
         errors |-> {}, order |-> 0, moved |-> FALSE, new_mid |-> 0, code |-> 0,
         post |-> <<>>, log |-> <<>>]

KindOf(op) == IF op \in {"create_category", "update_category"} THEN "category" ELSE "tag"

IsUpdate(op) == op \in {"update_category", "update_tag"}

Finish(p, code) ==
    procs' = [procs EXCEPT ![p] = [Idle EXCEPT !.code = code]]

Goto(p, pc) == procs' = [procs EXCEPT ![p].pc = pc]

Quiet == UNCHANGED <<metas, rels, contents, nextMid, nextCid, last, pre, track>>

(* a request arrives and gets its connection *)
conc_start(p, op, mid, data) ==
    /\ procs[p].pc = "idle"
    /\ procs' = [procs EXCEPT ![p] =
                    [Idle EXCEPT !.pc = IF IsUpdate(op) THEN "exists" ELSE "name",
                                 !.op = op, !.mid = mid, !.data = data]]
    /\ Quiet

(* category_exists(mid) / tag_exists(mid) before an update *)
conc_exists(p) ==
    /\ procs[p].pc = "exists"
    /\ IF procs[p].mid \in Mids(metas, KindOf(procs[p].op))
       THEN Goto(p, "name")
       ELSE Finish(p, 404)
    /\ Quiet

(* name_exists(name, connection, ignore_mid) *)
conc_name_exists(p) ==
    LET q == procs[p]
        name == Strip(Get(q.data.name, <<>>))
        ignore_mid == IF IsUpdate(q.op) THEN q.mid ELSE 0
        taken == IF KindOf(q.op) = "category"
                 THEN cat_name_exists(name, metas, ignore_mid)
                 ELSE tag_name_exists(name, metas, ignore_mid)
        e1 == IF name = <<>> THEN {"name_required"}
              ELSE IF taken THEN {"name_exists"} ELSE {}
    IN  /\ q.pc = "name"
        /\ procs' = [procs EXCEPT ![p].pc = "slug", ![p].errors = e1]
        /\ Quiet

ConcSlug(q) ==
    LET slug0 == Strip(Get(q.data.slug, <<>>))
    IN  IF slug0 = <<>> /\ ~IsUpdate(q.op)
        THEN slugify(Strip(Get(q.data.name, <<>>))) ELSE slug0

(* slug_exists(slug, connection, ignore_mid); a tag request is validated   *)
(* after it                                                                *)
conc_slug_exists(p) ==
    LET q == procs[p]
        slug == ConcSlug(q)
        ignore_mid == IF IsUpdate(q.op) THEN q.mid ELSE 0
        taken == IF KindOf(q.op) = "category"
                 THEN cat_slug_exists(slug, metas, ignore_mid)
                 ELSE tag_slug_exists(slug, metas, ignore_mid)
        e2 == IF slug = <<>> /\ IsUpdate(q.op) THEN {}
              ELSE IF ~SlugFormatOk(slug) THEN {"slug_format"}
              ELSE IF taken THEN {"slug_exists"} ELSE {}
        errors == q.errors \cup e2
    IN  /\ q.pc = "slug"
        /\ IF KindOf(q.op) = "category"
           THEN procs' = [procs EXCEPT ![p].pc = "parent", ![p].errors = errors]
           ELSE IF errors # {}
           THEN Finish(p, 400)
           ELSE Goto(p, "write")
        /\ Quiet

(* category_exists(parent); the category request is validated after it *)
conc_parent_exists(p) ==
    LET q == procs[p]
        has_parent == q.data.parent # <<>>
        parent == Get(q.data.parent, 0)
        checked == IF IsUpdate(q.op) THEN has_parent ELSE parent # 0
        e3 == IF checked
              THEN IF parent < 0 THEN {"parent_invalid"}
                   ELSE IF parent > 0 /\ ~category_exists(parent, metas)
                   THEN {"parent_missing"}
                   ELSE {}
              ELSE {}
        errors == q.errors \cup e3
    IN  /\ q.pc = "parent"
        /\ IF errors # {}
           THEN Finish(p, 400)
           ELSE Goto(p, IF IsUpdate(q.op) THEN "current" ELSE "max_order")
        /\ Quiet

(* update_category: SELECT `order`, parent of the target *)
conc_select_current(p) ==
    LET q == procs[p]
        moved == q.data.parent # <<>> /\ q.data.parent[1] # metas[q.mid].parent
    IN  /\ q.pc = "current"
        /\ IF ~category_exists(q.mid, metas)
           THEN Finish(p, 404)
           ELSE procs' = [procs EXCEPT ![p].moved = moved,
                              ![p].pc = IF moved THEN "max_order" ELSE "write"]
        /\ Quiet

(* get_max_order(parent, connection) + 1 *)
conc_max_order(p) ==
    LET q == procs[p]
    IN  /\ q.pc = "max_order"
        /\ get_max_order(Get(q.data.parent, 0), metas) + 1 <= MaxOrder
        /\ procs' = [procs EXCEPT
                        ![p].pc = "write",
                        ![p].order = get_max_order(Get(q.data.parent, 0), metas) + 1]
        /\ Quiet

(* the INSERT, which draws the new mid, or the UPDATE *)
conc_write(p) ==
    LET q == procs[p]
    IN  /\ q.pc = "write"
        /\ IF IsUpdate(q.op)
           THEN /\ Goto(p, "commit")
                /\ UNCHANGED nextMid
           ELSE /\ nextMid <= MaxMid
                /\ procs' = [procs EXCEPT ![p].pc = "commit", ![p].new_mid = nextMid]
                /\ nextMid' = nextMid + 1
        /\ UNCHANGED <<metas, rels, contents, nextCid, last, pre, track>>

ConcRow(q, old) ==
    IF q.op = "create_category"
    THEN [type |-> "category", name |-> Strip(Get(q.data.name, <<>>)),
          slug |-> ConcSlug(q), description |-> Get(q.data.description, ""),
          order |-> q.order, parent |-> Get(q.data.parent, 0), count |-> 0]
    ELSE IF q.op = "create_tag"
    THEN [type |-> "tag", name |-> Strip(Get(q.data.name, <<>>)),
          slug |-> ConcSlug(q), description |-> "", order |-> 0,
          parent |-> 0, count |-> 0]
    ELSE IF q.op = "update_category"
    THEN [old EXCEPT
            !.name = Strip(Get(q.data.name, <<>>)),
            !.slug = IF ConcSlug(q) # <<>> THEN ConcSlug(q) ELSE @,
            !.description = Get(q.data.description, ""),
            !.parent = IF q.data.parent # <<>> THEN q.data.parent[1] ELSE @,
            !.order = IF q.moved THEN q.order ELSE @]
    ELSE [old EXCEPT
            !.name = Strip(Get(q.data.name, <<>>)),
            !.slug = IF ConcSlug(q) # <<>> THEN ConcSlug(q) ELSE @]

(* connection.commit(): the write of the transaction becomes visible *)
conc_commit(p) ==
    LET q == procs[p]
    IN  /\ q.pc = "commit"
        /\ IF IsUpdate(q.op)
           THEN /\ metas' = IF q.mid \in Mids(metas, KindOf(q.op))
                            THEN [metas EXCEPT ![q.mid] = ConcRow(q, metas[q.mid])]
                            ELSE metas
                /\ Finish(p, 200)
           ELSE /\ metas' = Put(metas, q.new_mid, ConcRow(q, Idle))
                /\ Finish(p, 201)
        /\ UNCHANGED <<rels, contents, nextMid, nextCid, last, pre, track>>

(***************************************************************************)
(* Concurrent content requests and sweeps.  The writes of a transaction    *)
(* are kept in its log, in order; the transaction reads the committed      *)
(* tables with its own log applied, and the commit applies the log to the  *)
(* tables.  count = count +/- 1 is relative to the row as it is when the   *)
(* write lands; a statement on a row that is gone affects no row.          *)
(***************************************************************************)
Write(w, cid, mid, n, text) == [w |-> w, cid |-> cid, mid |-> mid, n |-> n, text |-> text]

AddCount(m, mid, kind, n) ==
    IF mid \in Mids(m, kind) THEN [m EXCEPT ![mid].count = @ + n] ELSE m

Apply(st, e) ==
    CASE e.w = "insert_content" ->
            [st EXCEPT !.contents = Put(@, e.cid, [type |-> "post", status |-> e.text,
                                                   parent |-> 0])]
      [] e.w = "delete_content" -> [st EXCEPT !.contents = Drop(@, {e.cid})]
      [] e.w = "insert_rel" -> [st EXCEPT !.rels = @ \cup {<<e.cid, e.mid>>}]
      [] e.w = "delete_rel" -> [st EXCEPT !.rels = @ \ {<<e.cid, e.mid>>}]
      [] e.w = "delete_rels_of" -> [st EXCEPT !.rels = {l \in @ : l[1] # e.cid}]
      [] e.w = "add_count" -> [st EXCEPT !.metas = AddCount(@, e.mid, e.text, e.n)]
      [] e.w = "set_count" ->
            [st EXCEPT !.metas = IF e.mid \in Mids(@, "tag")
                                 THEN [@ EXCEPT ![e.mid].count = e.n] ELSE @]
      [] e.w = "delete_tag" -> [st EXCEPT !.metas = Drop(@, {e.mid} \cap Mids(@, "tag"))]
      [] e.w = "unattach" ->
            [st EXCEPT !.contents =
                [i \in DOMAIN @ |->
                    IF @[i].parent = e.cid /\ @[i].type = "attachment"
                    THEN [@[i] EXCEPT !.parent = 0, !.status = "publish"] ELSE @[i]]]

RECURSIVE ApplyAll(_, _)
ApplyAll(st, log) ==
    IF log = <<>> THEN st ELSE ApplyAll(Apply(st, Head(log)), Tail(log))

(* what the transaction of p reads *)
View(p) == ApplyAll(Store, procs[p].log)

(* a sequence that lists the elements of a finite set of numbers *)
RECURSIVE Listed(_)
Listed(S) ==
    IF S = {} THEN <<>> ELSE <<Max(S)>> \o Listed(S \ {Max(S)})

Logged(p, pc, writes) ==
    procs' = [procs EXCEPT ![p].pc = pc, ![p].log = @ \o writes]

(* the response of a content request or sweep; the request stays on record *)
FinishPost(p, code) ==
    procs' = [procs EXCEPT ![p] = [Idle EXCEPT !.code = code, !.op = procs[p].op,
                                               !.mid = procs[p].mid]]

conc_start_post(p, op, post_id, data) ==
    /\ procs[p].pc = "idle"
    /\ procs' = [procs EXCEPT ![p] =
                    [Idle EXCEPT !.pc = CASE op = "create_post" -> "insert_post"
                                          [] op = "delete_post" -> "select_post"
                                          [] op = "refresh_tags" -> "refresh_count",
                                 !.op = op, !.mid = post_id, !.data = data]]
    /\ Quiet

(* create_post: INSERT INTO typecho_contents, which draws the new cid *)
conc_insert_post(p) ==
    LET q == procs[p]
    IN  /\ q.pc = "insert_post"
        /\ nextCid <= MaxCid
        /\ procs' = [procs EXCEPT
                        ![p].pc = "link_categories",
                        ![p].mid = nextCid,
                        ![p].log = <<Write("insert_content", nextCid, 0, 0,
                                           Get(q.data.status, "publish"))>>]
        /\ nextCid' = nextCid + 1
        /\ UNCHANGED <<metas, rels, contents, nextMid, last, pre, track>>

LinkWrites(cid, ids, kind) ==
    LET one(i) == <<Write("insert_rel", cid, i, 0, ""),
                    Write("add_count", 0, i, 1, kind)>>
        RECURSIVE all(_)
        all(l) == IF l = <<>> THEN <<>> ELSE one(Head(l)) \o all(Tail(l))
    IN  all(Listed(ids))

(* create_post: for each category id, SELECT mid ... AND type = 'category', *)
(* then the link and count + 1.  Exact for a list of one id.               *)
conc_link_categories(p) ==
    LET q == procs[p]
        ids == {i \in Get(q.data.category, {1}) : category_exists(i, View(p).metas)}
    IN  /\ q.pc = "link_categories"
        /\ Logged(p, "link_tags", LinkWrites(q.mid, ids, "category"))
        /\ Quiet

(* create_post: the same for each tag id *)
conc_link_tags(p) ==
    LET q == procs[p]
        ids == {i \in Get(q.data.tags, {}) : tag_exists(i, View(p).metas)}
    IN  /\ q.pc = "link_tags"
        /\ Logged(p, "commit_post", LinkWrites(q.mid, ids, "tag"))
        /\ Quiet

(* delete_post: SELECT cid, status, type; then DELETE FROM typecho_contents *)
conc_select_post(p) ==
    LET q == procs[p]
        c == View(p).contents
        found == q.mid \in DOMAIN c /\ c[q.mid].type \in {"post", "post_draft"}
    IN  /\ q.pc = "select_post"
        /\ IF ~found
           THEN FinishPost(p, 404)
           ELSE procs' = [procs EXCEPT
                            ![p].pc = "select_rels",
                            ![p].post = <<c[q.mid]>>,
                            ![p].log = <<Write("delete_content", q.mid, 0, 0, "")>>]
        /\ Quiet

UnlinkWrites(cid, ids, counted, kind) ==
    LET one(i) == <<Write("delete_rel", cid, i, 0, "")>>
                  \o (IF counted THEN <<Write("add_count", 0, i, -1, kind)>> ELSE <<>>)
        RECURSIVE all(_)
        all(l) == IF l = <<>> THEN <<>> ELSE one(Head(l)) \o all(Tail(l))
    IN  all(Listed(ids))

(* delete_post: SELECT mid FROM typecho_relationships, then the first loop *)
conc_select_rels(p) ==
    LET q == procs[p]
        counted == Counted(q.post[1].status, q.post[1].type)
        related_categories == LinkedMids(View(p).rels, q.mid)
    IN  /\ q.pc = "select_rels"
        /\ Logged(p, "select_rels_again",
                  UnlinkWrites(q.mid, related_categories, counted, "category"))
        /\ Quiet

(* delete_post: the same SELECT again, the second loop, then comments,     *)
(* attachments and fields                                                  *)
conc_select_rels_again(p) ==
    LET q == procs[p]
        counted == Counted(q.post[1].status, q.post[1].type)
        related_tags == LinkedMids(View(p).rels, q.mid)
    IN  /\ q.pc = "select_rels_again"
        /\ Logged(p, "select_draft",
                  UnlinkWrites(q.mid, related_tags, counted, "tag")
                  \o <<Write("unattach", q.mid, 0, 0, "")>>)
        /\ Quiet

(* delete_post: SELECT the draft of the post, and delete it with its links *)
conc_select_draft(p) ==
    LET q == procs[p]
        c == View(p).contents
        drafts == {i \in DOMAIN c : c[i].parent = q.mid /\ c[i].type = "post_draft"}
        draft_cid == IF drafts = {} THEN 0 ELSE CHOOSE i \in drafts : TRUE
    IN  /\ q.pc = "select_draft"
        /\ Logged(p, "commit_post",
                  IF drafts = {} THEN <<>>
                  ELSE <<Write("delete_content", draft_cid, 0, 0, ""),
                         Write("delete_rels_of", draft_cid, 0, 0, "")>>)
        /\ Quiet

(* refresh_tags: sql_refresh_count *)
conc_refresh_count(p) ==
    LET v == View(p)
        RECURSIVE all(_)
        all(l) == IF l = <<>> THEN <<>>
                  ELSE <<Write("set_count", 0, Head(l),
                               PublishedLinks(Head(l), v.rels, v.contents), "")>>
                       \o all(Tail(l))
    IN  /\ procs[p].pc = "refresh_count"
        /\ Logged(p, "delete_orphaned", all(Listed(Mids(v.metas, "tag"))))
        /\ Quiet

(* refresh_tags: sql_delete_orphaned *)
conc_delete_orphaned(p) ==
    LET v == View(p)
        RECURSIVE all(_)
        all(l) == IF l = <<>> THEN <<>>
                  ELSE <<Write("delete_tag", 0, Head(l), 0, "")>> \o all(Tail(l))
    IN  /\ procs[p].pc = "delete_orphaned"
        /\ Logged(p, "commit_post", all(Listed(Orphaned(v.metas))))
        /\ Quiet

(* connection.commit().  The repository does not fix the type of the count *)
(* column: when a count - 1 lands on a count of 0, a signed column stores  *)
(* -1, an unsigned column makes the UPDATE raise and the request rolls     *)
(* back with 500.                                                          *)
conc_commit_post(p, signed) ==
    LET q == procs[p]
        after == ApplyAll(Store, q.log)
        in_range == \A i \in DOMAIN after.metas : after.metas[i].count >= 0
    IN  /\ q.pc = "commit_post"
        /\ IF in_range \/ signed
           THEN /\ metas' = after.metas
                /\ rels' = after.rels
                /\ contents' = after.contents
                /\ FinishPost(p, CASE q.op = "create_post" -> 201 [] OTHER -> 200)
           ELSE /\ FinishPost(p, 500)
                /\ UNCHANGED <<metas, rels, contents>>
        /\ UNCHANGED <<nextMid, nextCid, last, pre, track>>

(***************************************************************************)
(* The initial store is empty; every row is created through the API.       *)
(***************************************************************************)
Init ==
    /\ metas = <<>>
    /\ rels = {}
    /\ contents = <<>>
    /\ nextMid = 1
    /\ nextCid = 1
    /\ last = [op |-> "none", code |-> 0, id |-> 0,
               order |-> 0, errors |-> {}, cleaned |-> 0, after_sweep |-> FALSE,
               closed |-> TRUE, failed |-> "none", rows |-> <<>>]
    /\ pre = [metas |-> <<>>, rels |-> {}, contents |-> <<>>]
    /\ track = NoTrack
    /\ procs = [p \in Procs |-> Idle]

MidInputs == 1..MaxMid

(***************************************************************************)
(* SpecTree: the category tree.  Requests carry a name and a parent; the   *)
(* k-th node created is named "a" k times and an update resends the name   *)
(* its target has, so that only parent and order vary.                     *)
(***************************************************************************)
FreshName(k) == [i \in 1..k |-> "a"]

CurrentName(mid) ==
    IF mid \in DOMAIN metas THEN metas[mid].name ELSE FreshName(mid)

ParentInputs == {<<>>} \cup {<<p>> : p \in 0..MaxMid}

TreeData(name) ==
    [name : {<<name>>}, slug : {<<>>}, description : {<<>>}, parent : ParentInputs]

NextTree ==
    \/ \E data \in TreeData(FreshName(nextMid)) : create_category(data)
    \/ \E mid \in MidInputs :
        \E data \in TreeData(CurrentName(mid)) : update_category(mid, data)
    \/ \E mid \in MidInputs : delete_category(mid)
    \/ create_tag([name |-> <<FreshName(nextMid)>>, slug |-> <<>>])

SpecTree == Init /\ [][NextTree]_vars

(***************************************************************************)
(* Spec: names, slugs and descriptions of both kinds, one request at a     *)
(* time.  Every node is a root; names arrive untrimmed too.                *)
(***************************************************************************)
NameInputs == {<<>>, <<<<"a", " ">>>>, <<<<"B">>>>}
SlugInputs == {<<>>, <<<<"b">>>>}
DescInputs == {<<>>, <<"d">>}

CategoryData == [name : NameInputs, slug : SlugInputs,
                 description : DescInputs, parent : {<<>>}]

TagData == [name : NameInputs, slug : SlugInputs]

Next ==
    \/ \E data \in CategoryData : create_category(data)
    \/ \E mid \in MidInputs, data \in CategoryData : update_category(mid, data)
    \/ \E mid \in MidInputs : delete_category(mid)
    \/ \E data \in TagData : create_tag(data)
    \/ \E mid \in MidInputs, data \in TagData : update_tag(mid, data)
    \/ \E mid \in MidInputs : delete_tag(mid, <<>>)

Spec == Init /\ [][Next]_vars

(***************************************************************************)
(* SpecPost: content and its links.  Nodes are created with fresh names;   *)
(* a post names any ids as its categories and as its tags.                 *)
(***************************************************************************)
IdListInputs == {<<>>} \cup {<<S>> : S \in SUBSET MidInputs}
StatusInputs == {<<>>, <<"draft">>}

PostData == [category : IdListInputs, tags : IdListInputs, status : StatusInputs]

CidInputs == 1..MaxCid

FreshData == [name |-> <<FreshName(nextMid)>>, slug |-> <<>>,
              description |-> <<>>, parent |-> <<>>]

NextPost ==
    \/ create_category(FreshData)
    \/ create_tag([name |-> <<FreshName(nextMid)>>, slug |-> <<>>])
    \/ \E data \in PostData : create_post(data)
    \/ \E post_id \in CidInputs : delete_post(post_id)
    \/ refresh_tags

SpecPost == Init /\ [][NextPost]_vars

(***************************************************************************)
(* SpecLookup: requests addressed to an id, over the ids the <int:mid>     *)
(* converter of the routes accepts, 0 included.  DELETE /api/tags/0 is     *)
(* served by the batch branch of delete_tag and reads 'mids' of the body.  *)
(***************************************************************************)
IdInputs == 0..MaxMid

LookupData == [name |-> <<FreshName(MaxMid + 1)>>, slug |-> <<>>,
               description |-> <<>>, parent |-> <<>>]

LookupTagData == [name |-> LookupData.name, slug |-> <<>>]

NextLookup ==
    \/ create_category(FreshData)
    \/ create_tag([name |-> FreshData.name, slug |-> <<>>])
    \/ \E mid \in IdInputs : update_category(mid, LookupData)
    \/ \E mid \in IdInputs : delete_category(mid)
    \/ \E mid \in IdInputs : get_category(mid)
    \/ \E mid \in IdInputs : update_tag(mid, LookupTagData)
    \/ \E mid \in IdInputs, mids \in IdListInputs :
            (mid # 0 => mids = <<>>) /\ delete_tag(mid, mids)
    \/ \E mid \in IdInputs : get_tag(mid)

SpecLookup == Init /\ [][NextLookup]_vars

(***************************************************************************)
(* SpecFlat: the category tree next to tags that are created, renamed,     *)
(* linked by content and swept.                                            *)
(***************************************************************************)
FlatPostData == [category : {<<>>}, tags : {<<{t}>> : t \in MidInputs}, status : {<<>>}]

NextFlat ==
    \/ \E data \in TreeData(FreshName(nextMid)) : create_category(data)
    \/ \E mid \in MidInputs : delete_category(mid)
    \/ create_tag([name |-> <<FreshName(nextMid)>>, slug |-> <<>>])
    \/ \E mid \in MidInputs : update_tag(mid, LookupTagData)
    \/ \E data \in FlatPostData : create_post(data)
    \/ refresh_tags

SpecFlat == Init /\ [][NextFlat]_vars

(***************************************************************************)
(* SpecSlug: creates without a slug on an empty store, over every name of  *)
(* up to MaxLen characters drawn from a letter of each case, a space, a    *)
(* hyphen, a punctuation mark and a letter outside ASCII, and over the     *)
(* name "Hello, World!".                                                   *)
(***************************************************************************)
SlugChars == {"A", "b", " ", "-", ",", "zh"}

RECURSIVE Strings(_)
Strings(n) ==
    IF n = 0 THEN {<<>>}
    ELSE LET shorter == Strings(n - 1)
         IN  shorter \cup {<<c>> \o t : c \in SlugChars, t \in {x \in shorter : Len(x) = n - 1}}

HelloWorld == <<"H", "e", "l", "l", "o", ",", " ", "W", "o", "r", "l", "d", "!">>

SlugNames == (Strings(MaxLen) \ {<<>>}) \cup {HelloWorld}

NextSlug ==
    \/ \E name \in SlugNames :
        /\ metas = <<>>
        /\ create_category([name |-> <<name>>, slug |-> <<>>,
                            description |-> <<>>, parent |-> <<>>])
    \/ \E name \in SlugNames :
        /\ metas = <<>>
        /\ create_tag([name |-> <<name>>, slug |-> <<>>])
    \/ \E mid \in MidInputs : delete_category(mid)
    \/ \E mid \in MidInputs : delete_tag(mid, <<>>)

SpecSlug == Init /\ [][NextSlug]_vars

(***************************************************************************)
(* SpecLink: content whose category list and tag list are each absent,    *)
(* empty, one id or every id.                                              *)
(***************************************************************************)
LinkLists == {<<>>, <<{}>>, <<MidInputs>>} \cup {<<{i}>> : i \in MidInputs}

LinkData == [category : LinkLists, tags : LinkLists, status : StatusInputs]

NextLink ==
    \/ create_category(FreshData)
    \/ create_tag([name |-> FreshData.name, slug |-> <<>>])
    \/ \E data \in LinkData : create_post(data)
    \/ \E post_id \in CidInputs : delete_post(post_id)

SpecLink == Init /\ [][NextLink]_vars

(***************************************************************************)
(* SpecParent: categories created and updated with a parent that is        *)
(* absent, negative, 0, or any id, next to tags whose ids can be named as  *)
(* parent too.                                                             *)
(***************************************************************************)
SignedParentInputs == ParentInputs \cup {<<-1>>}

ParentData(name) ==
    [name : {<<name>>}, slug : {<<>>}, description : {<<>>}, parent : SignedParentInputs]

NextParent ==
    \/ \E data \in ParentData(FreshName(nextMid)) : create_category(data)
    \/ \E mid \in MidInputs :
        \E data \in ParentData(CurrentName(mid)) : update_category(mid, data)
    \/ \E mid \in MidInputs : delete_category(mid)
    \/ create_tag([name |-> <<FreshName(nextMid)>>, slug |-> <<>>])

SpecParent == Init /\ [][NextParent]_vars

(***************************************************************************)
(* SpecFormat: creates and updates of both kinds whose name is ASCII or    *)
(* not and whose slug is absent, well formed, a punctuation mark, a letter *)
(* outside ASCII, or blank.                                                *)
(***************************************************************************)
FormatNames == {<<<<"a">>>>, <<<<"zh">>>>}

FormatSlugs == {<<>>, <<<<"b">>>>, <<<<"!">>>>, <<<<"zh">>>>, <<<<" ">>>>}

FormatData == [name : FormatNames, slug : FormatSlugs,
               description : {<<>>}, parent : {<<>>}]

FormatTagData == [name : FormatNames, slug : FormatSlugs]

NextFormat ==
    \/ \E data \in FormatData : create_category(data)
    \/ \E mid \in MidInputs, data \in FormatData : update_category(mid, data)
    \/ \E data \in FormatTagData : create_tag(data)
    \/ \E mid \in MidInputs, data \in FormatTagData : update_tag(mid, data)

SpecFormat == Init /\ [][NextFormat]_vars

(***************************************************************************)
(* SpecKinds: both kinds draw their names from the same two names, next to *)
(* content that links tags and the sweep.                                  *)
(***************************************************************************)
KindsData == [name : {<<<<"a">>>>, <<<<"B">>>>}, slug : {<<>>},
              description : {<<>>}, parent : {<<>>}]

KindsTagData == [name : {<<<<"a">>>>, <<<<"B">>>>}, slug : {<<>>}]

NextKinds ==
    \/ \E data \in KindsData : create_category(data)
    \/ \E mid \in MidInputs, data \in KindsData : update_category(mid, data)
    \/ \E mid \in MidInputs : delete_category(mid)
    \/ \E data \in KindsTagData : create_tag(data)
    \/ \E mid \in MidInputs, data \in KindsTagData : update_tag(mid, data)
    \/ \E mid \in MidInputs : delete_tag(mid, <<>>)
    \/ \E data \in FlatPostData : create_post(data)
    \/ refresh_tags

SpecKinds == Init /\ [][NextKinds]_vars

(***************************************************************************)
(* SpecAuth: every mutating route behind its decorator, called with an     *)
(* Authorization header, an X-API-Auth header, both or none.               *)
(***************************************************************************)
Payload(ok, colon, user, pass) == [ok |-> ok, colon |-> colon, user |-> user, pass |-> pass]

GoodPayload == Payload(TRUE, TRUE, "admin", "pw")

Payloads == {GoodPayload,
             Payload(FALSE, FALSE, "", ""),         \* not base64, or not utf-8
             Payload(TRUE, FALSE, "adminpw", ""),   \* no ':'
             Payload(TRUE, TRUE, "admin", "PW"),    \* wrong password
             Payload(TRUE, TRUE, "guest", "pw"),    \* no python_api_pwd
             Payload(TRUE, TRUE, "nobody", "pw")}   \* no such user

BadPassword == Payload(TRUE, TRUE, "admin", "PW")

Basic(payload) == <<[scheme |-> "Basic", payload |-> payload]>>

Bearer(payload) == <<[scheme |-> "Bearer", payload |-> payload]>>

Headers ==
    {[authorization |-> a, x_api_auth |-> <<>>] :
        a \in {<<>>, Bearer(GoodPayload)} \cup {Basic(x) : x \in Payloads}}
    \cup {[authorization |-> <<>>, x_api_auth |-> <<x>>] : x \in Payloads}
    \cup {[authorization |-> Bearer(BadPassword), x_api_auth |-> <<GoodPayload>>],
          [authorization |-> Basic(BadPassword), x_api_auth |-> <<GoodPayload>>],
          [authorization |-> Basic(GoodPayload), x_api_auth |-> <<BadPassword>>]}

Routes(headers) ==
    \/ require_api_auth(headers, "create_category", create_category(FreshData))
    \/ \E mid \in {1} :
        require_api_auth(headers, "update_category",
                         update_category(mid, [FreshData EXCEPT !.name = <<CurrentName(mid)>>]))
    \/ \E mid \in MidInputs :
        require_api_auth(headers, "delete_category", delete_category(mid))
    \/ require_api_auth(headers, "create_tag",
                        create_tag([name |-> FreshData.name, slug |-> <<>>]))
    \/ \E mid \in {1} :
        require_api_auth(headers, "update_tag",
                         update_tag(mid, [name |-> <<CurrentName(mid)>>, slug |-> <<>>]))
    \/ \E mid \in MidInputs :
        require_api_auth(headers, "delete_tag", delete_tag(mid, <<>>))
    \/ require_api_auth(headers, "refresh_tags", refresh_tags)
    \/ require_api_auth(headers, "create_post",
                        create_post([category |-> <<>>, tags |-> <<MidInputs>>,
                                     status |-> <<>>]))
    \/ \E post_id \in CidInputs :
        require_api_auth(headers, "delete_post", delete_post(post_id))

NextAuth == \E headers \in Headers : Routes(headers)

SpecAuth == Init /\ [][NextAuth]_vars

(***************************************************************************)
(* SpecBatch: DELETE /api/tags with a list of ids, over tags, categories   *)
(* and links made without failure; in a batch delete at most one statement *)
(* raises, and of the tag_exists calls the one for a single existing tag   *)
(* (for any other id the helper answers False whether it raises or not).   *)
(***************************************************************************)
BatchLists == {<<S>> : S \in SUBSET MidInputs}

BatchFaults == {"none", "tag_exists", "delete", "delete_rels", "commit"}

NextBatch ==
    \/ create_category(FreshData)
    \/ create_tag([name |-> FreshData.name, slug |-> <<>>])
    \/ \E data \in FlatPostData : create_post(data)
    \/ \E mids \in BatchLists, f \in BatchFaults, i \in Mids(metas, "tag") :
            delete_tag_failing_at(0, mids, f, {i})
    \/ \E mids \in BatchLists : delete_tag(0, mids)

SpecBatch == Init /\ [][NextBatch]_vars

(***************************************************************************)
(* SpecList: the two lists, asked without query parameters, over the trees *)
(* and tags that creates, moves and deletes make.                          *)
(***************************************************************************)
NextList ==
    \/ \E data \in TreeData(FreshName(nextMid)) : create_category(data)
    \/ \E mid \in MidInputs :
        \E data \in TreeData(CurrentName(mid)) : update_category(mid, data)
    \/ \E mid \in MidInputs : delete_category(mid)
    \/ create_tag([name |-> <<FreshName(nextMid)>>, slug |-> <<>>])
    \/ get_categories
    \/ get_tags(DefaultPage, DefaultPerPage)

SpecList == Init /\ [][NextList]_vars

(***************************************************************************)
(* SpecValidate: creates whose name, slug and parent can each break a rule. *)
(***************************************************************************)
ValidateData == [name : {<<>>, <<<<"a">>>>, <<<<"B">>>>},
                 slug : {<<>>, <<<<"a">>>>, <<<<"!">>>>},
                 description : {<<>>},
                 parent : {<<>>, <<1>>, <<MaxMid>>}]

ValidateTagData == {[name |-> d.name, slug |-> d.slug] : d \in ValidateData}

NextValidate ==
    \/ \E data \in ValidateData : create_category(data)
    \/ \E data \in ValidateTagData : create_tag(data)

SpecValidate == Init /\ [][NextValidate]_vars

(***************************************************************************)
(* SpecFault: one request at a time, and in each request at most one       *)
(* statement raises (a lost connection, a lock timeout, a missing table).  *)
(* "none" is a request without failure.                                    *)
(***************************************************************************)
HelperReads == {"category_exists", "tag_exists", "name_exists", "slug_exists",
                "parent_exists", "get_max_order"}

(* of the statements whose failure ends in the handler's except block,     *)
(* the first write and the commit stand for all                            *)
CreateCategoryFaults == {"none", "name_exists", "slug_exists", "parent_exists",
                         "get_max_order", "insert", "commit"}

UpdateCategoryFaults == {"none", "category_exists", "parent_exists",
                         "get_max_order", "update", "commit"}

DeleteCategoryFaults == {"none", "category_exists", "delete", "commit"}

CreateTagFaults == {"none", "name_exists", "slug_exists", "insert", "commit"}

UpdateTagFaults == {"none", "tag_exists", "update", "commit"}

DeleteTagFaults == {"none", "tag_exists", "delete", "commit"}

SweepFaults == {"none", "refresh_count", "delete_orphaned", "commit"}

CreatePostFaults == {"none", "insert", "select_meta", "increment", "commit"}

DeletePostFaults == {"none", "select_post", "delete", "decrement", "delete_comments",
                     "delete_fields", "commit"}

FaultData == [name : {<<<<"a">>>>, <<<<"B">>>>}, slug : {<<>>},
              description : {<<>>}, parent : {<<>>, <<1>>}]

FaultTagData == [name : {<<<<"a">>>>, <<<<"B">>>>}, slug : {<<>>}]

NextFault ==
    \/ \E data \in FaultData, f \in CreateCategoryFaults : create_category_with(data, f)
    \/ \E mid \in MidInputs, data \in FaultData, f \in UpdateCategoryFaults :
            update_category_with(mid, data, f)
    \/ \E mid \in MidInputs, f \in DeleteCategoryFaults : delete_category_with(mid, f)
    \/ \E data \in FaultTagData, f \in CreateTagFaults : create_tag_with(data, f)
    \/ \E mid \in MidInputs, data \in FaultTagData, f \in UpdateTagFaults :
            update_tag_with(mid, data, f)
    \/ \E mid \in MidInputs, f \in DeleteTagFaults : delete_tag_with(mid, <<>>, f)

SpecFault == Init /\ [][NextFault]_vars

(***************************************************************************)
(* SpecFaultPost: the same for content and the sweep, over categories and  *)
(* tags created without failure.                                           *)
(***************************************************************************)
NextFaultPost ==
    \/ create_category(FreshData)
    \/ create_tag([name |-> FreshData.name, slug |-> <<>>])
    \/ \E data \in PostData, f \in CreatePostFaults : create_post_with(data, f)
    \/ \E post_id \in CidInputs, f \in DeletePostFaults : delete_post_with(post_id, f)
    \/ \E f \in SweepFaults : refresh_tags_with(f)

SpecFaultPost == Init /\ [][NextFaultPost]_vars

(***************************************************************************)
(* SpecConc: two connections serve creates and updates of both kinds at    *)
(* the same time.                                                          *)
(***************************************************************************)
ConcOps == {"create_category", "create_tag", "update_category", "update_tag"}

ConcData == [name : {<<<<"a">>>>, <<<<"B">>>>}, slug : {<<>>},
             description : {<<>>}, parent : {<<>>, <<1>>}]

ConcRequests ==
    {r \in [op : ConcOps, mid : {0, 1}, data : ConcData] :
        /\ (r.mid # 0) = IsUpdate(r.op)
        /\ KindOf(r.op) = "tag" => r.data.parent = <<>>}

NextConc ==
    \/ \E p \in Procs, r \in ConcRequests : conc_start(p, r.op, r.mid, r.data)
    \/ \E p \in Procs : conc_exists(p)
    \/ \E p \in Procs : conc_name_exists(p)
    \/ \E p \in Procs : conc_slug_exists(p)
    \/ \E p \in Procs : conc_parent_exists(p)
    \/ \E p \in Procs : conc_select_current(p)
    \/ \E p \in Procs : conc_max_order(p)
    \/ \E p \in Procs : conc_write(p)
    \/ \E p \in Procs : conc_commit(p)

SpecConc == Init /\ [][NextConc]_vars

(***************************************************************************)
(* SpecConcTree: categories are created and deleted by requests that run   *)
(* alone, while two connections serve creates and updates that name        *)
(* category 1 as parent.  A delete that runs alone between two steps of    *)
(* another request is a delete whose transaction began and committed       *)
(* between them.                                                           *)
(***************************************************************************)
ConcTreeData == [name : {<<<<"B">>>>}, slug : {<<>>}, description : {<<>>},
                 parent : {<<1>>}]

ConcTreeRequests ==
    {r \in [op : {"create_category", "update_category"}, mid : {0, MaxMid},
            data : ConcTreeData] :
        (r.mid # 0) = IsUpdate(r.op)}

NextConcTree ==
    \/ create_category(FreshData)
    \/ \E mid \in MidInputs : delete_category(mid)
    \/ \E p \in Procs, r \in ConcTreeRequests : conc_start(p, r.op, r.mid, r.data)
    \/ \E p \in Procs : conc_exists(p)
    \/ \E p \in Procs : conc_name_exists(p)
    \/ \E p \in Procs : conc_slug_exists(p)
    \/ \E p \in Procs : conc_parent_exists(p)
    \/ \E p \in Procs : conc_select_current(p)
    \/ \E p \in Procs : conc_max_order(p)
    \/ \E p \in Procs : conc_write(p)
    \/ \E p \in Procs : conc_commit(p)

SpecConcTree == Init /\ [][NextConcTree]_vars

(***************************************************************************)
(* SpecConcCreate: each of two connections serves one create of a root     *)
(* category, under a name and slug of its own, after categories that were  *)
(* created one at a time.                                                  *)
(***************************************************************************)
NameOfProc(p) == IF p = 1 THEN <<"B">> ELSE <<"1">>

ConcCreateData(p) ==
    [name : {<<NameOfProc(p)>>}, slug : {<<>>}, description : {<<>>},
     parent : {<<>>, <<0>>}]

NextConcCreate ==
    \/ (\A p \in Procs : procs[p] = Idle) /\ create_category(FreshData)
    \/ \E p \in Procs :
        \E data \in ConcCreateData(p) :
            procs[p].code = 0 /\ conc_start(p, "create_category", 0, data)
    \/ \E p \in Procs : conc_name_exists(p)
    \/ \E p \in Procs : conc_slug_exists(p)
    \/ \E p \in Procs : conc_parent_exists(p)
    \/ \E p \in Procs : conc_max_order(p)
    \/ \E p \in Procs : conc_write(p)
    \/ \E p \in Procs : conc_commit(p)

SpecConcCreate == Init /\ [][NextConcCreate]_vars

(***************************************************************************)
(* SpecConcPost: categories, tags and content are created by requests that *)
(* run alone; two connections serve content creation, content deletion and *)
(* the sweep at the same time.                                             *)
(***************************************************************************)
ConcPostData == [category : {<<>>}, tags : {<<{t}>> : t \in MidInputs}, status : {<<>>}]

ConcPostRequests ==
    {r \in [op : {"create_post", "delete_post", "refresh_tags"},
            post_id : {0} \cup CidInputs, data : ConcPostData \cup {NoData}] :
        /\ (r.post_id # 0) = (r.op = "delete_post")
        /\ (r.data # NoData) = (r.op = "create_post")}

NextConcPost ==
    \/ create_category(FreshData)
    \/ create_tag([name |-> FreshData.name, slug |-> <<>>])
    \/ \E data \in ConcPostData : create_post(data)
    \/ \E p \in Procs, r \in ConcPostRequests : conc_start_post(p, r.op, r.post_id, r.data)
    \/ \E p \in Procs : conc_insert_post(p)
    \/ \E p \in Procs : conc_link_categories(p)
    \/ \E p \in Procs : conc_link_tags(p)
    \/ \E p \in Procs : conc_select_post(p)
    \/ \E p \in Procs : conc_select_rels(p)
    \/ \E p \in Procs : conc_select_rels_again(p)
    \/ \E p \in Procs : conc_select_draft(p)
    \/ \E p \in Procs : conc_refresh_count(p)
    \/ \E p \in Procs : conc_delete_orphaned(p)
    \/ \E p \in Procs, signed \in BOOLEAN : conc_commit_post(p, signed)

SpecConcPost == Init /\ [][NextConcPost]_vars

(***************************************************************************)
(* The category tree.                                                      *)
(***************************************************************************)
(* the categories met walking the parent chain from x, x included *)
RECURSIVE Walk(_, _, _)
Walk(m, x, seen) ==
    IF x \notin Mids(m, "category") \/ x \in seen THEN seen
    ELSE Walk(m, m[x].parent, seen \cup {x})

AncestorsOrSelf(m, x) == Walk(m, x, {})

DescendantsOrSelf(m, a) ==
    {d \in Mids(m, "category") : a \in AncestorsOrSelf(m, d)}

AllTreeData == UNION {TreeData(FreshName(k)) : k \in MidInputs}

(* C2: an update of category A that sets A.parent to A itself or to a      *)
(* descendant of A is rejected with a validation error (400) and leaves    *)
(* every node unchanged.                                                   *)
C2_CycleUpdateRejected ==
    [][\A mid \in MidInputs, data \in AllTreeData :
         ( /\ update_category(mid, data)
           /\ category_exists(mid, metas)
           /\ data.parent # <<>>
           /\ data.parent[1] \in DescendantsOrSelf(metas, mid) )
         => (last'.code = 400 /\ metas' = metas)]_vars

(* C3: no category is its own ancestor: following parent from any category *)
(* never comes back to it.                                                 *)
C3_NoCycle ==
    \A x \in Mids(metas, "category") :
        x \notin AncestorsOrSelf(metas, metas[x].parent)

(* C4: deleting an existing category X whose parent is P removes X, every  *)
(* category whose parent was X has parent P afterwards, and no category    *)
(* has parent X.                                                           *)
C4_DeleteReparents ==
    (last.op = "delete_category" /\ last.code = 200) =>
        LET X == last.id
            P == pre.metas[X].parent
        IN  /\ X \notin DOMAIN metas
            /\ \A c \in Mids(pre.metas, "category") \ {X} :
                   pre.metas[c].parent = X =>
                       (c \in DOMAIN metas /\ metas[c].parent = P)
            /\ \A c \in Mids(metas, "category") : metas[c].parent # X

(***************************************************************************)
(* Order of a new node.                                                    *)
(***************************************************************************)
BucketOrders(m, kind, parent) ==
    {m[i].order : i \in {j \in Mids(m, kind) : m[j].parent = parent}}

NextInBucket(m, kind, parent) ==
    IF BucketOrders(m, kind, parent) = {} THEN 1
    ELSE 1 + Max(BucketOrders(m, kind, parent))

JustCreatedThenDeleted ==
    /\ last.op = "delete_post"
    /\ last.code = 200
    /\ track.cid = last.id

(* C1: creating a published content item P with node N among its          *)
(* category/tag ids and then deleting P returns N.referenceCount to the    *)
(* value it had before P was created, for categories and for tags.         *)
C1_CreateDeleteBalanced ==
    (JustCreatedThenDeleted /\ pre.contents[last.id].status = "publish") =>
        \A n \in LinkedMids(pre.rels, last.id) :
            metas[n].count = track.count[n]

(* C9: deleting a content item that is not published removes all of its    *)
(* links and leaves the referenceCount of every node unchanged.            *)
C9_UnpublishedDeleteKeepsCounts ==
    ( /\ last.op = "delete_post"
      /\ last.code = 200
      /\ pre.contents[last.id].status # "publish" ) =>
        /\ \A l \in rels : l[1] # last.id
        /\ DOMAIN metas = DOMAIN pre.metas
        /\ \A n \in DOMAIN metas : metas[n].count = pre.metas[n].count

C9_Witness ==
    /\ last.op = "delete_post"
    /\ last.code = 200
    /\ pre.contents[last.id].status = "draft"
    /\ \E n \in LinkedMids(pre.rels, last.id) :
          pre.metas[n].type = "category" /\ pre.metas[n].count > 0
    /\ \E n \in LinkedMids(pre.rels, last.id) : pre.metas[n].type = "tag"

(* C7: a tag sweep that directly follows a tag sweep deletes no tag and    *)
(* leaves every count and the whole store as the first left it.            *)
C7_SweepIdempotent ==
    (last.op = "refresh_tags" /\ last.code = 200 /\ last.after_sweep) =>
        /\ last.cleaned = 0
        /\ metas = pre.metas
        /\ rels = pre.rels
        /\ contents = pre.contents

C7_Witness ==
    /\ last.op = "refresh_tags"
    /\ last.code = 200
    /\ last.after_sweep
    /\ \E l \in rels : l[2] \notin DOMAIN metas

(***************************************************************************)
(* Names.                                                                  *)
(***************************************************************************)
NameTaken(m, kind, name) == \E i \in Mids(m, kind) : m[i].name = name

Rejected(errs) ==
    /\ last'.code = 400
    /\ errs \subseteq last'.errors
    /\ metas' = metas
    /\ nextMid' = nextMid

(* C5: with one request at a time, a create of a category (of a tag) whose *)
(* trimmed name is the name of an existing category (tag) is rejected with *)
(* a validation error and inserts nothing, whatever its slug.              *)
C5_DuplicateNameRejected ==
    [][ /\ last'.op = "create_category" =>
            \A data \in CategoryData :
                ( /\ NameTaken(metas, "category", Strip(Get(data.name, <<>>)))
                  /\ create_category(data) )
                => Rejected({"name_exists"})
        /\ last'.op = "create_tag" =>
            \A data \in TagData :
                ( /\ NameTaken(metas, "tag", Strip(Get(data.name, <<>>)))
                  /\ create_tag(data) )
                => Rejected({"name_exists"}) ]_vars

C5_Witness ==
    /\ last.op = "create_category"
    /\ last.code = 400
    /\ last.errors = {"name_exists"}
    /\ \E i \in Mids(metas, "category") : metas[i].slug # slugify(metas[i].name)

(* C8: an update that supplies the current name and no field that differs  *)
(* from the node's current values returns success and leaves every field   *)
(* of the node and every other row unchanged.                              *)
NothingDiffers(data, row) ==
    /\ data.name # <<>> /\ Strip(data.name[1]) = row.name
    /\ data.slug # <<>> => Strip(data.slug[1]) = row.slug
    /\ data.description # <<>> => data.description[1] = row.description
    /\ data.parent # <<>> => data.parent[1] = row.parent

StoreUnchanged ==
    /\ last'.code = 200
    /\ metas' = metas
    /\ rels' = rels
    /\ contents' = contents

C8_UpdateWithoutChangeIsNoOp ==
    [][ /\ \A mid \in MidInputs, data \in CategoryData :
            ( /\ update_category(mid, data)
              /\ category_exists(mid, metas)
              /\ NothingDiffers(data, metas[mid]) )
            => StoreUnchanged
        /\ \A mid \in MidInputs, data \in TagData :
            ( /\ update_tag(mid, data)
              /\ tag_exists(mid, metas)
              /\ NothingDiffers([name |-> data.name, slug |-> data.slug,
                                 description |-> <<>>, parent |-> <<>>],
                                metas[mid]) )
            => StoreUnchanged ]_vars

(***************************************************************************)
(* Uniqueness.                                                             *)
(***************************************************************************)
(* C10: in every reachable state, interleavings of two concurrent create   *)
(* or update requests included, no two nodes of the same kind share a name *)
(* and no two nodes of the same kind share a slug.                         *)
C10_UniqueNameAndSlug ==
    \A i, j \in DOMAIN metas :
        (i # j /\ metas[i].type = metas[j].type) =>
            (metas[i].name # metas[j].name /\ metas[i].slug # metas[j].slug)

(***************************************************************************)
(* The sweep as a reconciliation.                                          *)
(***************************************************************************)
LinksToPublishedPosts(t, r, c) ==
    {l \in r : /\ l[2] = t
               /\ l[1] \in DOMAIN c
               /\ c[l[1]].type = "post"
               /\ c[l[1]].status = "publish"}

(* C14: right after a tag sweep commits, every remaining tag has a         *)
(* referenceCount equal to the number of its links to published posts,     *)
(* that number is positive, and every tag that had no such link is gone.   *)
C14_SweepReconciles ==
    (last.op = "refresh_tags" /\ last.code = 200) =>
        /\ \A t \in Mids(metas, "tag") :
              /\ metas[t].count = Cardinality(LinksToPublishedPosts(t, rels, contents))
              /\ metas[t].count > 0
        /\ \A t \in Mids(pre.metas, "tag") :
              LinksToPublishedPosts(t, pre.rels, pre.contents) = {} =>
                  t \notin DOMAIN metas

C14_Witness ==
    /\ last.op = "refresh_tags"
    /\ last.code = 200
    /\ last.cleaned > 0
    /\ \E t \in Mids(metas, "tag") : pre.metas[t].count > 0

(***************************************************************************)
(* Updates.                                                                *)
(***************************************************************************)
UsedByOther(m, kind, mid, field, value) ==
    \E i \in Mids(m, kind) \ {mid} : m[i][field] = value

DuplicateRuleOnUpdate(kind, mid, name, slug) ==
    LET name_dup == UsedByOther(metas, kind, mid, "name", name)
        slug_dup == slug # <<>> /\ UsedByOther(metas, kind, mid, "slug", slug)
    IN  /\ (name_dup \/ slug_dup) => (last'.code = 400 /\ metas' = metas)
        /\ (name = metas[mid].name /\ ~name_dup) => "name_exists" \notin last'.errors
        /\ (slug = metas[mid].slug /\ ~slug_dup) => "slug_exists" \notin last'.errors

(* C15: an update of node X is rejected with a validation error and        *)
(* changes nothing when the new name or slug is used by a different node   *)
(* of the same kind, and is not rejected as a duplicate when the name or   *)
(* slug supplied is X's own.                                               *)
C15_UpdateDuplicateRejected ==
    [][ /\ last'.op = "update_category" =>
            \A mid \in MidInputs, data \in CategoryData :
                (category_exists(mid, metas) /\ update_category(mid, data)) =>
                    DuplicateRuleOnUpdate("category", mid,
                                          Strip(Get(data.name, <<>>)),
                                          Strip(Get(data.slug, <<>>)))
        /\ last'.op = "update_tag" =>
            \A mid \in MidInputs, data \in TagData :
                (tag_exists(mid, metas) /\ update_tag(mid, data)) =>
                    DuplicateRuleOnUpdate("tag", mid,
                                          Strip(Get(data.name, <<>>)),
                                          Strip(Get(data.slug, <<>>))) ]_vars

AbsentFieldsKept(mid, data) ==
    /\ mid \in DOMAIN metas'
    /\ data.name = <<>> => metas'[mid].name = metas[mid].name
    /\ data.slug = <<>> => metas'[mid].slug = metas[mid].slug
    /\ data.description = <<>> => metas'[mid].description = metas[mid].description
    /\ data.parent = <<>> => metas'[mid].parent = metas[mid].parent
    /\ (data.description # <<>> /\ last'.code = 200) =>
           metas'[mid].description = data.description[1]

(* C16: for every update of an existing node, each of name, slug,          *)
(* description and parent that is absent from the request keeps its stored *)
(* value; description changes only when the request supplies it.           *)
C16_AbsentFieldsKept ==
    [][ /\ last'.op = "update_category" =>
            \A mid \in MidInputs, data \in CategoryData :
                (category_exists(mid, metas) /\ update_category(mid, data)) =>
                    AbsentFieldsKept(mid, data)
        /\ last'.op = "update_tag" =>
            \A mid \in MidInputs, data \in TagData :
                (tag_exists(mid, metas) /\ update_tag(mid, data)) =>
                    AbsentFieldsKept(mid, [name |-> data.name, slug |-> data.slug,
                                           description |-> <<>>, parent |-> <<>>]) ]_vars

(***************************************************************************)
(* Connections and links.                                                  *)
(***************************************************************************)
(* C19: every request that acquired a connection has released it when it   *)
(* ends, whatever the outcome (success, validation failure, not found).    *)
C19_ConnectionReleased == last.op # "none" => last.closed

(* C20: with one request at a time, every content link refers to a content *)
(* item that exists and to a taxonomy node that exists.                    *)
C20_NoDanglingLink ==
    \A l \in rels : l[1] \in DOMAIN contents /\ l[2] \in DOMAIN metas

(***************************************************************************)
(* Validation of a create.                                                 *)
(***************************************************************************)
SlugTaken(m, kind, slug) == \E i \in Mids(m, kind) : m[i].slug = slug

(* the rules a create request breaks in the current store *)
Violations(kind, data) ==
    LET name == Strip(Get(data.name, <<>>))
        given == Strip(Get(data.slug, <<>>))
        slug == IF given = <<>> THEN slugify(name) ELSE given
        parent == IF kind = "category" THEN Get(data.parent, 0) ELSE 0
    IN  {e \in {"name_required"} : name = <<>>}
        \cup {e \in {"name_exists"} : NameTaken(metas, kind, name)}
        \cup {e \in {"slug_format"} : ~SlugFormatOk(slug)}
        \cup {e \in {"slug_exists"} : SlugTaken(metas, kind, slug)}
        \cup {e \in {"parent_invalid"} : parent < 0}
        \cup {e \in {"parent_missing"} :
                 parent > 0 /\ parent \notin Mids(metas, "category")}

AllReported(violations) ==
    violations # {} =>
        /\ last'.code = 400
        /\ last'.errors = violations
        /\ metas' = metas
        /\ nextMid' = nextMid

(* C17: a create that breaks several validation rules at once is rejected  *)
(* with one error that names every broken rule, and inserts nothing.       *)
C17_AllViolationsReported ==
    [][ /\ last'.op = "create_category" =>
            \A data \in ValidateData :
                create_category(data) => AllReported(Violations("category", data))
        /\ last'.op = "create_tag" =>
            \A data \in ValidateTagData :
                create_tag(data) => AllReported(Violations("tag", data)) ]_vars

C17_Witness ==
    /\ last.op = "create_category"
    /\ last.code = 400
    /\ last.errors = {"name_exists", "slug_exists", "parent_missing"}

(***************************************************************************)
(* Storage failures.                                                       *)
(***************************************************************************)
StoreAsBefore == Store = pre

(* C12: if a storage step of a request fails, the request commits nothing: *)
(* the store after the request equals the store before it, also when the   *)
(* failing step is one of the late steps of content deletion.              *)
C12_FailedRequestCommitsNothing ==
    (last.failed # "none" /\ last.op \in {"create_post", "delete_post", "refresh_tags"})
        => StoreAsBefore

(* C18: when the storage read of an existence, name, slug or max-order     *)
(* check fails, the request ends with a storage error and mutates nothing. *)
C18_FailedReadSurfaces ==
    last.failed \in HelperReads => (last.code = 500 /\ StoreAsBefore)

(***************************************************************************)
(* Concurrent content requests.                                            *)
(***************************************************************************)
(* C11: in every reachable state the referenceCount of every node is >= 0, *)
(* also after two interleaved deletes of the same published content item.  *)
C11_CountNeverNegative ==
    \A n \in DOMAIN metas : metas[n].count >= 0

Committed(p, op, code) ==
    procs[p].pc = "idle" /\ procs[p].op = op /\ procs[p].code = code

(* C13: after a sweep and a content creation that attaches a tag have both *)
(* committed, however their steps interleaved, no link of the new content  *)
(* refers to a tag that no longer exists, and every surviving tag's        *)
(* referenceCount is at least the number of its links to published posts.  *)
C13_SweepSafeWithCreate ==
    \A p, q \in Procs :
        (Committed(p, "create_post", 201) /\ Committed(q, "refresh_tags", 200)) =>
            /\ \A l \in rels : l[1] = procs[p].mid => l[2] \in DOMAIN metas
            /\ \A t \in Mids(metas, "tag") :
                  metas[t].count >= Cardinality(LinksToPublishedPosts(t, rels, contents))

(***************************************************************************)
(* Requests addressed to an id.                                            *)
(***************************************************************************)
AddressedKind(op) ==
    IF op \in {"update_category", "delete_category", "get_category"} THEN "category"
    ELSE IF op \in {"update_tag", "delete_tag", "get_tag"} THEN "tag"
    ELSE "none"

(* C21: an update, delete or get addressed to an id for which no node of   *)
(* the addressed kind exists (the id of a node of the other kind included) *)
(* answers 404 and leaves the store unchanged.                             *)
C21_MissingIdNotFound ==
    (/\ AddressedKind(last.op) # "none"
     /\ last.id \notin Mids(pre.metas, AddressedKind(last.op)))
        => (last.code = 404 /\ StoreAsBefore)

(***************************************************************************)
(* Tags are flat.                                                          *)
(***************************************************************************)
(* C22: in every reachable state every tag has parent 0; no tag create,    *)
(* tag update, category delete or sweep gives a tag another parent.        *)
C22_TagsAreFlat ==
    \A t \in Mids(metas, "tag") : metas[t].parent = 0

(* a category was deleted next to a tag that a request had renamed *)
C22_Witness ==
    /\ last.op = "delete_category"
    /\ last.code = 200
    /\ \E t \in Mids(metas, "tag") : metas[t].name = LookupTagData.name[1]

(***************************************************************************)
(* The derived slug.                                                       *)
(***************************************************************************)
(* the slug as the rule words it: of the lowercased name without the       *)
(* characters that are no word character, whitespace or hyphen, every      *)
(* character that is no separator stays, and of each run of separators     *)
(* only the first stays, as a hyphen                                       *)
DerivedAsDescribed(name) ==
    LET low == [i \in 1..Len(name) |-> Lower(name[i])]
        f == SelectSeq(low, LAMBDA c : c \in Word \cup Space \cup Hyphen)
        positions == [i \in 1..Len(f) |-> i]
        kept == SelectSeq(positions, LAMBDA i : f[i] \notin Sep \/ i = 1 \/ f[i - 1] \notin Sep)
    IN  [k \in 1..Len(kept) |-> IF f[kept[k]] \in Sep THEN "-" ELSE f[kept[k]]]

C24_OrderOfMovedCategory ==
    (last.op = "update_category" /\ last.code = 200) =>
        LET old == pre.metas[last.id]
            new == metas[last.id]
        IN  /\ new.parent # old.parent =>
                  new.order = NextInBucket(pre.metas, "category", new.parent)
            /\ new.parent = old.parent => new.order = old.order
            /\ \A i \in DOMAIN metas \ {last.id} : metas[i].order = pre.metas[i].order

(* a category moved under a parent that had a child already *)
C24_Witness ==
    /\ last.op = "update_category"
    /\ last.code = 200
    /\ metas[last.id].parent # pre.metas[last.id].parent
    /\ metas[last.id].order = 2

NamesParent(data) == data.parent # <<>> /\ data.parent[1] # 0

BadParent(data, m) == data.parent[1] < 0 \/ data.parent[1] \notin Mids(m, "category")

ParentRule(data) ==
    NamesParent(data) =>
        IF BadParent(data, metas)
        THEN /\ last'.code = 400
             /\ last'.errors \cap {"parent_invalid", "parent_missing"} # {}
             /\ UNCHANGED <<metas, rels, contents>>
        ELSE last'.errors \cap {"parent_invalid", "parent_missing"} = {}

(* C26: a category create, or an update of an existing category, that      *)
(* names a non-zero parent is rejected with a validation error and changes *)
(* nothing when the parent is negative or is not the id of an existing     *)
(* category (the id of a tag included); the parent is accepted only when a *)
(* category with that id exists.                                           *)
C26_ParentMustBeCategory ==
    [][/\ last'.op = "create_category" =>
            \A data \in ParentData(FreshName(nextMid)) :
                create_category(data) => ParentRule(data)
       /\ (last'.op = "update_category" /\ last'.code # 404) =>
            \A data \in ParentData(CurrentName(last'.id)) :
                update_category(last'.id, data) => ParentRule(data)]_vars

(* a request was rejected for its parent while every id was taken, by a    *)
(* tag among others: the parent it named is no category                    *)
C26_Witness ==
    /\ last.op \in {"create_category", "update_category"}
    /\ last.code = 400
    /\ "parent_missing" \in last.errors
    /\ DOMAIN metas = MidInputs
    /\ Mids(metas, "tag") # {}
    /\ Mids(metas, "category") # {}

(***************************************************************************)
(* The format of stored slugs.                                             *)
(***************************************************************************)
SlugAlphabet == {"a", "b", "A", "B", "H", "W", "h", "e", "l", "o", "w", "r", "d",
                 "1", "_", "-"}

WellFormed(slug) == Len(slug) > 0 /\ \A i \in 1..Len(slug) : slug[i] \in SlugAlphabet

(* the slug a create works with: the one given, or the one derived *)
SlugOfCreate(data) ==
    IF Strip(Get(data.slug, <<>>)) # <<>> THEN Strip(Get(data.slug, <<>>))
    ELSE DerivedAsDescribed(Strip(Get(data.name, <<>>)))

RejectedUntouched ==
    /\ last'.code = 400
    /\ "slug_format" \in last'.errors
    /\ UNCHANGED <<metas, rels, contents>>

(* C27: the slug of every stored node is non-empty and made of letters,    *)
(* digits, underscore and hyphen only; a create whose given or derived     *)
(* slug is empty or holds another character (a name without ASCII letters  *)
(* or digits and no slug, say) is rejected and inserts nothing.            *)
C27_SlugWellFormed ==
    [][/\ \A n \in DOMAIN metas' : WellFormed(metas'[n].slug)
       /\ last'.op = "create_category" =>
            \A data \in FormatData :
                (create_category(data) /\ ~WellFormed(SlugOfCreate(data)))
                    => RejectedUntouched
       /\ last'.op = "create_tag" =>
            \A data \in FormatTagData :
                (create_tag(data) /\ ~WellFormed(SlugOfCreate(data)))
                    => RejectedUntouched]_vars

(* a create was rejected for its slug alone, next to a node with a name    *)
(* outside ASCII that is stored under the slug the request gave            *)
C27_Witness ==
    /\ last.op \in {"create_category", "create_tag"}
    /\ last.code = 400
    /\ last.errors = {"slug_format"}
    /\ \E n \in DOMAIN metas : metas[n].name = <<"zh">> /\ metas[n].slug = <<"b">>

(***************************************************************************)
(* What a category delete leaves alone.                                    *)
(***************************************************************************)
(* C28: deleting category X removes the row of X and every link to X and   *)
(* rewrites the parent of the direct children of X, and nothing else: the  *)
(* name, slug, description, order and count of every other node and every  *)
(* link to another node are unchanged.                                     *)
C28_DeleteCategoryFrame ==
    (last.op = "delete_category" /\ last.code = 200) =>
        LET X == last.id
        IN  /\ DOMAIN metas = DOMAIN pre.metas \ {X}
            /\ \A n \in DOMAIN metas :
                  /\ metas[n] = [pre.metas[n] EXCEPT !.parent = metas[n].parent]
                  /\ metas[n].parent # pre.metas[n].parent =>
                        (pre.metas[n].type = "category" /\ pre.metas[n].parent = X)
            /\ rels = {l \in pre.rels : l[2] # X}
            /\ contents = pre.contents

(* a category with a child and a link was deleted: the child moved up with *)
(* its order and the link is gone                                          *)
C28_Witness ==
    /\ last.op = "delete_category"
    /\ last.code = 200
    /\ \E n \in DOMAIN metas : metas[n].parent # pre.metas[n].parent
    /\ \E l \in pre.rels : l[2] = last.id
    /\ \E c \in DOMAIN contents : TRUE

(***************************************************************************)
(* Categories and tags share a table and nothing else.                     *)
(***************************************************************************)
RowsOf(m, kind) == [i \in Mids(m, kind) |-> m[i]]

CategoryOps == {"create_category", "update_category", "delete_category"}

TagOps == {"create_tag", "update_tag", "delete_tag", "refresh_tags"}

(* a duplicate error of a create is owed to a node of the same kind *)
CreateComparesOwnKind(kind, data) ==
    /\ "name_exists" \in last'.errors => NameTaken(metas, kind, Strip(data.name[1]))
    /\ "slug_exists" \in last'.errors => SlugTaken(metas, kind, SlugOfCreate(data))

(* a duplicate error of an update is owed to another node of the same kind *)
UpdateComparesOwnKind(kind, mid, data) ==
    /\ "name_exists" \in last'.errors =>
          UsedByOther(metas, kind, mid, "name", Strip(data.name[1]))
    /\ "slug_exists" \in last'.errors =>
          UsedByOther(metas, kind, mid, "slug", Strip(Get(data.slug, <<>>)))

(* C29: a category create, update or delete never inserts, modifies or     *)
(* deletes a tag row; a tag create, update, delete and the sweep never     *)
(* insert, modify or delete a category row; the duplicate checks compare   *)
(* nodes of the same kind only, so that a category and a tag may hold the  *)
(* same name and slug.                                                     *)
C29_PartitionedByKind ==
    [][/\ last'.op \in CategoryOps => RowsOf(metas', "tag") = RowsOf(metas, "tag")
       /\ last'.op \in TagOps => RowsOf(metas', "category") = RowsOf(metas, "category")
       /\ last'.op = "create_category" =>
            \A data \in KindsData :
                create_category(data) => CreateComparesOwnKind("category", data)
       /\ last'.op = "create_tag" =>
            \A data \in KindsTagData :
                create_tag(data) => CreateComparesOwnKind("tag", data)
       /\ last'.op = "update_category" =>
            \A data \in KindsData :
                update_category(last'.id, data)
                    => UpdateComparesOwnKind("category", last'.id, data)
       /\ last'.op = "update_tag" =>
            \A data \in KindsTagData :
                update_tag(last'.id, data)
                    => UpdateComparesOwnKind("tag", last'.id, data)]_vars

(* a node was created under the name and slug a node of the other kind has *)
C29_Witness ==
    /\ last.op \in {"create_category", "create_tag"}
    /\ last.code = 201
    /\ \E n \in DOMAIN metas \ {last.id} :
          /\ metas[n].type # metas[last.id].type
          /\ metas[n].name = metas[last.id].name
          /\ metas[n].slug = metas[last.id].slug

(***************************************************************************)
(* The parent of a category.                                               *)
(***************************************************************************)
(* C30: in every reachable state, the states reached by interleaving a     *)
(* category delete with a create or update that names the deleted category *)
(* as parent included, the parent of every category is 0 or the id of an   *)
(* existing category.                                                      *)
C30_ParentExists ==
    \A c \in Mids(metas, "category") :
        metas[c].parent = 0 \/ metas[c].parent \in Mids(metas, "category")

(***************************************************************************)
(* Two creates at the same time.                                           *)
(***************************************************************************)
Served(p) == procs[p].pc = "idle" /\ procs[p].code # 0

CreatedBy(p) == {i \in Mids(metas, "category") : metas[i].name = NameOfProc(p)}

(* the largest order among the root categories that no connection created *)
OrderBefore ==
    LET before == {i \in Mids(metas, "category") :
                      metas[i].parent = 0 /\ i \notin CreatedBy(1) \cup CreatedBy(2)}
    IN  IF before = {} THEN 0 ELSE Max({metas[i].order : i \in before})

(* C31: however two valid creates of categories under the same parent with *)
(* different names and slugs interleave, both commit, both nodes are there *)
(* afterwards under distinct ids, and nothing is out of line except that   *)
(* the two may have received the same order.                               *)
C31_ConcurrentCreatesCommit ==
    /\ \A p \in Procs : Served(p) =>
          /\ procs[p].code = 201
          /\ Cardinality(CreatedBy(p)) = 1
    /\ (\A p \in Procs : Served(p)) =>
          LET i == CHOOSE x \in CreatedBy(1) : TRUE
              j == CHOOSE x \in CreatedBy(2) : TRUE
          IN  /\ i # j
              /\ \A n \in {i, j} :
                    /\ metas[n].parent = 0
                    /\ metas[n].count = 0
                    /\ metas[n].slug = LowerStr(metas[n].name)
                    /\ metas[n].order \in {OrderBefore + 1, OrderBefore + 2}
              /\ OrderBefore + 1 \in {metas[i].order, metas[j].order}

(* both creates have committed, and with the same order *)
C31_Witness ==
    /\ \A p \in Procs : Served(p) /\ procs[p].code = 201
    /\ \E i \in CreatedBy(1), j \in CreatedBy(2) : metas[i].order = metas[j].order

(***************************************************************************)
(* Credentials.                                                            *)
(***************************************************************************)
(* the requests that carry the name and the API password of a user: in a   *)
(* Basic Authorization header, or in X-API-Auth when there is no Basic     *)
(* Authorization header                                                    *)
RightCredentials ==
    {h \in Headers :
        \/ h.authorization = Basic(GoodPayload)
        \/ /\ h.authorization = <<>> \/ h.authorization[1].scheme # "Basic"
           /\ h.x_api_auth = <<GoodPayload>>}

(* C32: a mutating request with missing, malformed or wrong credentials is *)
(* answered 401 and mutates nothing; the handler runs only for a request   *)
(* that authenticated.                                                     *)
C32_UnauthorizedMutatesNothing ==
    \A headers \in Headers \ RightCredentials :
        ~ENABLED (/\ Routes(headers)
                  /\ \/ last'.code # 401
                     \/ <<metas, rels, contents, nextMid, nextCid>>'
                            # <<metas, rels, contents, nextMid, nextCid>>)

(* a request was turned away from a store it could have changed *)
C32_Witness ==
    /\ last.code = 401
    /\ last.op = "delete_category"
    /\ Mids(metas, "category") # {}
    /\ Mids(metas, "tag") # {}

(***************************************************************************)
(* Batch delete of tags.                                                   *)
(***************************************************************************)
(* C33: a batch tag delete removes exactly the listed ids that are         *)
(* existing tags, with every link to them, and ignores the other ids; if a *)
(* step fails, no listed tag and no link is removed; when no listed id is  *)
(* an existing tag it answers 404 and changes nothing.                     *)
C33_BatchDeleteAllOrNothing ==
    [][(last'.op = "delete_tag" /\ last'.id = 0) =>
          \A mids \in BatchLists, f \in BatchFaults, i \in Mids(metas, "tag") \cup {0} :
              delete_tag_failing_at(0, mids, f, {i}) =>
                  LET existing == mids[1] \cap Mids(metas, "tag")
                  IN  IF existing = {}
                      THEN last'.code = 404 /\ UNCHANGED <<metas, rels, contents>>
                      ELSE IF last'.failed # "none"
                      THEN UNCHANGED <<metas, rels, contents>>
                      ELSE /\ last'.code = 200
                           /\ metas' = Drop(metas, existing)
                           /\ rels' = {l \in rels : l[2] \notin existing}
                           /\ UNCHANGED contents]_vars

(***************************************************************************)
(* The lists.                                                              *)
(***************************************************************************)
KindListed == IF last.op = "get_categories" THEN "category" ELSE "tag"

(* row a comes before row b by parent, then order, then id *)
Before(a, b) ==
    \/ metas[a].parent < metas[b].parent
    \/ /\ metas[a].parent = metas[b].parent
       /\ \/ metas[a].order < metas[b].order
          \/ metas[a].order = metas[b].order /\ a < b

(* C34: a list holds exactly the existing nodes of its kind, sorted by     *)
(* parent ascending, then order ascending, then id; for categories and for *)
(* tags.                                                                   *)
C34_ListsSorted ==
    (last.op \in {"get_categories", "get_tags"} /\ last.code = 200) =>
        /\ {last.rows[i] : i \in DOMAIN last.rows} = Mids(metas, KindListed)
        /\ Len(last.rows) = Cardinality(Mids(metas, KindListed))
        /\ \A i, j \in DOMAIN last.rows : i < j => Before(last.rows[i], last.rows[j])

=============================================================================
